---- MODULE Spec2Model ----
(***************************************************************************)
(* Model of the InceptionDB collection engine (package collection):        *)
(* the in-memory row table, the unique-map indexes, the append-only        *)
(* command log and its replay by OpenCollection.                           *)
(*                                                                         *)
(* JSON values are sequences of strings whose head is the JSON type:       *)
(*   <<"str", s>>  a string, <<"num", n>>  a number,                       *)
(*   <<"arr", s1, ..., sn>>  an array of strings, <<"null">>  null.        *)
(* A JSON object (row payload, patch, defaults) is a function from a       *)
(* subset of Fields to values.  A *Row is a natural number (its address);  *)
(* I and Payload give the fields of every Row allocated so far.            *)
(***************************************************************************)
EXTENDS Integers, Sequences, FiniteSets, TLC

VARIABLES
    Rows,       \* Collection.Rows: sequence of *Row
    I,          \* Row.I of every allocated row
    Payload,    \* Row.Payload of every allocated row
    Indexes,    \* Collection.Indexes: name -> [field, sparse, entries]
    Defaults,   \* Collection.Defaults: <<>> when nil, else <<object>>
    Count,      \* Collection.Count
    file,       \* Collection.file: "open", "failing" (writes return an error), "nil"
    log,        \* the commands written to the collection's file, in order
    nops,       \* number of calls made so far
    allOk,      \* every call made so far returned a nil error
    ret,        \* the last call: what was called and what it returned
    pc,         \* per goroutine: where it is in the call it is running
    local,      \* per goroutine: the local variables of that call
    rowsMutex,  \* Collection.rowsMutex: 0 when free, else the goroutine holding it
    returned,   \* per goroutine: the last call it finished and its result
    docA,       \* merge patch: the document a patch or a diff is applied to
    docB,       \* merge patch: the document the diff is computed towards
    docDiff,    \* merge patch: the diff computed from docA to docB
    docOut,     \* merge patch: docA with the diff applied
    docStage,   \* merge patch: "start", "diffed of two", "diffed of patch", then "replayed ..."
    status,     \* Database.status
    Collections,\* Database.Collections: name -> collection (an index into cols)
    cols,       \* the collections OpenCollection has returned: name and whether closed
    files,      \* the names of the files in Config.Dir
    corrupt,    \* the names of the files OpenCollection cannot replay
    exit,       \* Database.exit: TRUE once closed
    dcalls,     \* number of Database calls begun
    dpc,        \* per caller of the Database: where it is in its call
    dlocal,     \* per caller of the Database: the locals of its call
    dret,       \* per caller of the Database: the last call it finished and its result
    start,      \* the call of Database.Start: "idle", "waiting" on exit, "returned"
    load,       \* the Load that Start runs: its position, its locals and its result
    stop,       \* the call of Database.Stop: its position, its locals and its result
    manager,    \* replication.Manager: incoming, whether closed, the field set to nil, subscribers
    chans,      \* the channels Subscribe has made, by id: buffer, whether closed, history
    loop,       \* Manager.loop: its position, the event in hand, the subscribers to do, drop
    pub,        \* per publisher: where it is in PublishCommand
    closer,     \* the call of Manager.Close: where it is
    busHist,    \* the bus so far: events enqueued, calls made, whether a goroutine panicked
    plog,       \* primary: the commands in the file of each collection, in order
    events,     \* primary: the events sent into incoming, by number, and those about to be
    stream,     \* primary: the stream handler serving the secondary's request
    wire,       \* the response body: events written by the handler, not yet decoded
    sec,        \* replication.Secondary: loop position, progress, progress file, collections
    stopper,    \* the call of Secondary.Stop: "idle", "waiting" on done, "returned"
    repHist,    \* the replication so far: commits, connections, failed applications
    bulk        \* the handler of a bulk insert: its channels, goroutines and locals

vars == <<Rows, I, Payload, Indexes, Defaults, Count, file, log, nops, allOk, ret,
          pc, local, rowsMutex, returned,
          docA, docB, docDiff, docOut, docStage,
          status, Collections, cols, files, corrupt, exit, dcalls, dpc, dlocal, dret,
          start, load, stop,
          manager, chans, loop, pub, closer, busHist,
          plog, events, stream, wire, sec, stopper, repHist,
          bulk>>

colVars == <<Rows, I, Payload, Indexes, Defaults, Count, file, log>>
seqVars == <<allOk, ret>>
goVars == <<pc, local, rowsMutex, returned>>
docVars == <<docA, docB, docDiff, docOut, docStage>>

dbVars == <<status, Collections, cols, files, corrupt, exit, dcalls, dpc, dlocal, dret>>

\* the state outside the collection and the calls made on it
lifeVars == <<start, load, stop>>
busVars == <<manager, chans, loop, pub, closer, busHist>>
repVars == <<plog, events, stream, wire, sec, stopper, repHist>>
bulkVars == <<bulk>>
extVars == <<docVars, dbVars, lifeVars, busVars, repVars, bulkVars>>

\* ---------------------------------------------------------------- bounds
MaxOps == 4
MaxRows == 3
MaxCalls == 3
MaxDepth == 1
MaxDbCalls == 4
MaxPublish == 2
IncomingCap == 1
SubscriberCap == 1
MaxCommits == 2
MaxHistory == 1
MaxFaults == 1
MaxBody == 3

Goroutines == {1, 2}

\* ---------------------------------------------------------------- values
Fields == {"id", "tag"}
IndexNames == {"x1", "x2"}

Str(s) == <<"str", s>>
Arr(ks) == <<"arr">> \o ks
Null == <<"null">>
NumStr(n) == <<"0", "1", "2", "3", "4", "5", "6", "7", "8", "9">>[n + 1]
Num(n) == <<"num", NumStr(n)>>
Obj(f) == <<"obj", f>>

IsNull(v) == v[1] = "null"
IsObj(v) == v[1] = "obj"

EmptyObject == [k \in {} |-> Null]
Obj1(k, v) == [x \in {k} |-> v]
Obj2(k1, v1, k2, v2) == [x \in {k1, k2} |-> IF x = k1 THEN v1 ELSE v2]

\* the documents handed to Insert
Items ==
    { Obj1("id", Str("a")),
      Obj2("id", Str("a"), "tag", Str("a")),
      Obj2("id", Str("b"), "tag", Str("a")),
      Obj1("id", Arr(<<"a", "b">>)) }

\* the merge patches handed to Patch
Patches ==
    { Obj1("id", Str("a")),
      Obj1("id", Str("b")),
      Obj1("tag", Null),
      Obj1("id", Num(7)) }

\* the maps handed to SetDefaults
DefaultsInputs ==
    { Obj1("tag", Str("auto()")),
      Obj1("id", Str("b")) }

\* the options handed to CreateIndex (IndexMapOptions)
IndexOptions == [field : Fields, sparse : BOOLEAN]

\* Go iterates over a map in an unspecified order: every order is possible
Orders(S) == { o \in [1..Cardinality(S) -> S] : \A a, b \in 1..Cardinality(S) : o[a] = o[b] => a = b }

\* ---------------------------------------------------------------- results
NoErr == ""
ErrClosed == "collection is closed"
ErrWrite == "write command"
ErrConflict == "index conflict"
ErrMandatory == "field is indexed and mandatory"
ErrType == "type not supported"
ErrRowMissing == "row does not exist"
ErrFreeIndex == "could not free index"
ErrIndexExists == "index already exists"
ErrIndexNotFound == "index not found"


\* ---------------------------------------------------------------- merge patch
\* pruneNulls: a patch value that is stored as it is loses its null members
RECURSIVE PruneNulls(_)
PruneNulls(v) ==
    IF ~IsObj(v) THEN v
    ELSE Obj([k \in {x \in DOMAIN v[2] : ~IsNull(v[2][x])} |-> PruneNulls(v[2][k])])

\* jsonpatch.MergePatch (RFC 7396): a null in the patch erases the key; an
\* object in the patch is merged into an object of the document, member by
\* member; any other value replaces what the document held
RECURSIVE MergePatch(_, _)
MergePatch(doc, patch) ==
    [k \in ((DOMAIN doc) \ {x \in DOMAIN patch : IsNull(patch[x])})
            \cup {x \in DOMAIN patch : ~IsNull(patch[x])}
        |-> IF k \notin DOMAIN patch THEN doc[k]
            ELSE IF k \in DOMAIN doc /\ IsObj(doc[k]) /\ IsObj(patch[k])
                 THEN Obj(MergePatch(doc[k][2], patch[k][2]))
                 ELSE PruneNulls(patch[k])]

\* a diff that leaves out the keys the target no longer has
RECURSIVE CreateMergePatch_NoRemovals(_, _)
CreateMergePatch_NoRemovals(a, b) ==
    LET bothObj(x) == IsObj(a[x]) /\ IsObj(b[x])
        sub(x) == CreateMergePatch_NoRemovals(a[x][2], b[x][2])
    IN  [k \in {x \in DOMAIN b :
                   \/ x \notin DOMAIN a
                   \/ bothObj(x) /\ DOMAIN sub(x) # {}
                   \/ ~bothObj(x) /\ (a[x][1] # b[x][1] \/ a[x] # b[x])}
            |-> IF k \in DOMAIN a /\ bothObj(k) THEN Obj(sub(k)) ELSE b[k]]

\* jsonpatch.CreateMergePatch: the members of b that are new or differ (for two
\* objects, their own diff when it is not empty), and a null for every key of
\* a that b lacks
RECURSIVE CreateMergePatch(_, _)
CreateMergePatch(a, b) ==
    LET bothObj(x) == IsObj(a[x]) /\ IsObj(b[x])
        sub(x) == CreateMergePatch(a[x][2], b[x][2])
    IN  [k \in {x \in DOMAIN b :
                   \/ x \notin DOMAIN a
                   \/ bothObj(x) /\ DOMAIN sub(x) # {}
                   \/ ~bothObj(x) /\ (a[x][1] # b[x][1] \/ a[x] # b[x])}
               \cup ((DOMAIN a) \ (DOMAIN b))
            |-> IF k \notin DOMAIN b THEN Null
                ELSE IF k \in DOMAIN a /\ bothObj(k) THEN Obj(sub(k))
                ELSE b[k]]

\* the JSON values of the merge-patch check: strings, null, and objects nested
\* up to MaxDepth deep
Leaves == {Str("a"), Str("b"), Null}
NestedFields == {"id"}

RECURSIVE JsonValues(_)
JsonValues(depth) ==
    IF depth = 0 THEN Leaves
    ELSE LET inner == JsonValues(depth - 1)
         IN  Leaves \cup {Obj(f) : f \in UNION {[S -> inner] : S \in SUBSET NestedFields}}

JsonObjects == UNION {[S -> JsonValues(MaxDepth)] : S \in SUBSET Fields}

\* ---------------------------------------------------------------- commands
NoOptions == [field |-> "", sparse |-> FALSE]

Command(name, i, doc, index, options) ==
    [name |-> name, i |-> i, doc |-> doc, index |-> index, options |-> options]

InsertCommand(payload) == Command("insert", -1, payload, "", NoOptions)
RemoveCommand(i) == Command("remove", i, EmptyObject, "", NoOptions)
PatchCommand(i, diff) == Command("patch", i, diff, "", NoOptions)
CreateIndexCommand(name, options) == Command("index", -1, EmptyObject, name, options)
DropIndexCommand(name) == Command("drop_index", -1, EmptyObject, name, NoOptions)
SetDefaultsCommand(defaults) == Command("set_defaults", -1, defaults, "", NoOptions)

\* ---------------------------------------------------------------- unique-map index
NewIndexMap(options) ==
    [field |-> options.field, sparse |-> options.sparse, entries |-> [k \in {} |-> 0]]

\* the keys a value is indexed under
KeysOf(v) == IF v[1] = "str" THEN {v[2]}
             ELSE IF v[1] = "arr" THEN {v[n] : n \in 2..Len(v)}
             ELSE {}

IsIndexable(v) == v[1] \in {"str", "arr"}

\* IndexMap.AddRow, the part before the write lock is taken: the field is
\* looked up, the type is checked and the keys are searched under the read lock
AddRowCheck(index, payload) ==
    IF index.field \notin DOMAIN payload
    THEN IF index.sparse THEN NoErr ELSE ErrMandatory
    ELSE IF ~IsIndexable(payload[index.field]) THEN ErrType
    ELSE IF \E k \in KeysOf(payload[index.field]) : k \in DOMAIN index.entries THEN ErrConflict
    ELSE NoErr

\* IndexMap.AddRow, the part under the write lock: every key of the row is
\* stored, whatever the entry held
AddRowStore(index, row, payload) ==
    IF index.field \notin DOMAIN payload THEN index
    ELSE LET keys == KeysOf(payload[index.field])
             e == index.entries
         IN  [index EXCEPT !.entries =
                 [k \in (DOMAIN e) \cup keys |-> IF k \in keys THEN row ELSE e[k]]]

\* IndexMap.AddRow run without interruption
AddRow(index, row, payload) ==
    LET err == AddRowCheck(index, payload)
    IN  IF err # NoErr THEN [err |-> err, index |-> index]
        ELSE [err |-> NoErr, index |-> AddRowStore(index, row, payload)]

\* IndexMap.RemoveRow: deletes the row's keys, whichever row they point to
RemoveRow(index, payload) ==
    IF index.field \notin DOMAIN payload
    THEN [err |-> NoErr, index |-> index]
    ELSE LET v == payload[index.field]
             e == index.entries
         IN  IF ~IsIndexable(v)
             THEN [err |-> ErrType, index |-> index]
             ELSE [err |-> NoErr,
                   index |-> [index EXCEPT !.entries =
                       [k \in (DOMAIN e) \ KeysOf(v) |-> e[k]]]]

\* indexInsert without its deferred rollback
IndexRollback_None(indexes, order, n, payload) == indexes

\* the deferred rollback of indexInsert: RemoveRow on the first n indexes of
\* the iteration, errors ignored
IndexRollback(indexes, order, n, payload) ==
    [name \in DOMAIN indexes |->
        IF \E j \in 1..n : order[j] = name
        THEN RemoveRow(indexes[name], payload).index
        ELSE indexes[name]]

RECURSIVE indexInsertFrom(_, _, _, _, _)
indexInsertFrom(indexes, order, n, row, payload) ==
    IF n = Len(order)
    THEN [err |-> NoErr, indexes |-> indexes, rolledBack |-> 0]
    ELSE LET name == order[n + 1]
             res == AddRow(indexes[name], row, payload)
         IN  IF res.err # NoErr
             THEN [err |-> res.err,
                   indexes |-> IndexRollback(indexes, order, n, payload),
                   rolledBack |-> n]
             ELSE indexInsertFrom([indexes EXCEPT ![name] = res.index], order, n + 1, row, payload)

\* indexInsert: AddRow on every index in iteration order; on the first error
\* the indexes already done are rolled back
indexInsert(indexes, order, row, payload) ==
    indexInsertFrom(indexes, order, 0, row, payload)

RECURSIVE indexRemoveFrom(_, _, _, _)
indexRemoveFrom(indexes, order, n, payload) ==
    IF n = Len(order)
    THEN [err |-> NoErr, indexes |-> indexes]
    ELSE LET name == order[n + 1]
             res == RemoveRow(indexes[name], payload)
         IN  IF res.err # NoErr
             THEN [err |-> res.err, indexes |-> indexes]
             ELSE indexRemoveFrom([indexes EXCEPT ![name] = res.index], order, n + 1, payload)

\* indexRemove: RemoveRow on every index in iteration order, stopping at the
\* first error (no rollback)
indexRemove(indexes, order, payload) ==
    indexRemoveFrom(indexes, order, 0, payload)

\* ---------------------------------------------------------------- collection
\* A collection value: the fields of Collection and of the Rows it allocated
EmptyCollection ==
    [Rows |-> <<>>, I |-> <<>>, Payload |-> <<>>, Indexes |-> [n \in {} |-> NewIndexMap(NoOptions)],
     Defaults |-> <<>>, Count |-> 0, file |-> "open", log |-> <<>>]

\* what an operation returns: the collection it leaves, its error, the row and
\* the position it worked on, and how many indexes indexInsert rolled back
Result(c, err, row, i, rolledBack) ==
    [c |-> c, err |-> err, row |-> row, i |-> i, rolledBack |-> rolledBack]

\* persistCommand reporting success without writing the command
persistCommand_NoWrite(c, command) ==
    IF c.file = "nil" THEN [c |-> c, err |-> ErrClosed]
    ELSE [c |-> c, err |-> NoErr]

\* Collection.persistCommand: refuses when the file is nil, otherwise writes
\* the encoded command at the end of the file
persistCommand(c, command) ==
    IF c.file = "nil" THEN [c |-> c, err |-> ErrClosed]
    ELSE IF c.file = "failing" THEN [c |-> c, err |-> ErrWrite]
    ELSE [c |-> [c EXCEPT !.log = Append(c.log, command)], err |-> NoErr]

\* Collection.addRow
addRow(c, payload, order) ==
    LET row == Len(c.I) + 1
        ins == indexInsert(c.Indexes, order, row, payload)
    IN  IF ins.err # NoErr
        THEN Result([c EXCEPT !.Indexes = ins.indexes], ins.err, 0, -1, ins.rolledBack)
        ELSE Result([c EXCEPT !.Indexes = ins.indexes,
                              !.I = Append(c.I, Len(c.Rows)),
                              !.Payload = Append(c.Payload, payload),
                              !.Rows = Append(c.Rows, row)],
                    NoErr, row, Len(c.Rows), 0)

\* the defaults loop of Insert: "auto()" becomes the counter, any other value
\* is the literal; the fields of the item override the defaults
ApplyDefaults(defaults, auto, item) ==
    [k \in (DOMAIN defaults) \cup (DOMAIN item) |->
        IF k \in DOMAIN item THEN item[k]
        ELSE IF defaults[k] = Str("auto()") THEN Num(auto)
        ELSE defaults[k]]

\* Collection.Insert
Insert(c, item, order) ==
    IF c.file = "nil" THEN Result(c, ErrClosed, 0, -1, 0)
    ELSE LET auto == c.Count + 1
             payload == IF c.Defaults = <<>> THEN item
                        ELSE ApplyDefaults(c.Defaults[1], auto, item)
             added == addRow([c EXCEPT !.Count = auto], payload, order)
         IN  IF added.err # NoErr THEN added
             ELSE LET p == persistCommand(added.c, InsertCommand(payload))
                  IN  Result(p.c, p.err, added.row, added.i, 0)

\* the swap-with-last without the update of the moved row's I
SwapWithLast_StaleI(c, i) ==
    LET last == Len(c.Rows)
        moved == c.Rows[last]
    IN  [c EXCEPT !.Rows = [p \in 1..(last - 1) |-> IF p = i + 1 THEN moved ELSE c.Rows[p]]]

\* a removal that closes the gap by shifting the rows behind it
SwapWithLast_Shift(c, i) ==
    LET last == Len(c.Rows)
        rows == [p \in 1..(last - 1) |-> IF p <= i THEN c.Rows[p] ELSE c.Rows[p + 1]]
    IN  [c EXCEPT !.Rows = rows,
                  !.I = [r \in DOMAIN c.I |->
                            IF \E p \in 1..(last - 1) : rows[p] = r
                            THEN (CHOOSE p \in 1..(last - 1) : rows[p] = r) - 1
                            ELSE c.I[r]]]

\* the swap-with-last of removeByRow
SwapWithLast(c, i) ==
    LET last == Len(c.Rows)
        moved == c.Rows[last]
    IN  [c EXCEPT !.Rows = [p \in 1..(last - 1) |-> IF p = i + 1 THEN moved ELSE c.Rows[p]],
                  !.I = [c.I EXCEPT ![moved] = i]]

\* Collection.removeByRow
removeByRow(c, row, persist, order) ==
    LET i == c.I[row]
    IN  IF Len(c.Rows) <= i THEN Result(c, ErrRowMissing, row, i, 0)
        ELSE LET rem == indexRemove(c.Indexes, order, c.Payload[row])
             IN  IF rem.err # NoErr
                 THEN Result([c EXCEPT !.Indexes = rem.indexes], ErrFreeIndex, row, i, 0)
                 ELSE LET c2 == SwapWithLast([c EXCEPT !.Indexes = rem.indexes], i)
                      IN  IF ~persist THEN Result(c2, NoErr, row, i, 0)
                          ELSE LET p == persistCommand(c2, RemoveCommand(i))
                               IN  Result(p.c, p.err, row, i, 0)

\* handleDelete, the loop over rowsToDelete: Remove on one row after the
\* other, returning at the first error; n rows are removed so far
RECURSIVE removeRowsFrom(_, _, _, _)
removeRowsFrom(c, rowsToDelete, n, order) ==
    IF n = Len(rowsToDelete) THEN Result(c, NoErr, 0, n, 0)
    ELSE LET res == removeByRow(c, rowsToDelete[n + 1], TRUE, order)
         IN  IF res.err # NoErr THEN Result(res.c, res.err, rowsToDelete[n + 1], n, 0)
             ELSE removeRowsFrom(res.c, rowsToDelete, n + 1, order)

\* handleDelete: the rows the filter selects are collected from a copy of the
\* row table in the order of their positions, then removed one by one; the
\* result holds the number of rows affected
handleDelete(c, selected, order) ==
    removeRowsFrom(c, SelectSeq(c.Rows, LAMBDA row : row \in selected), 0, order)

\* a test of the diff that never finds it empty
IsEmptyDiff_Never(diff) == FALSE

\* the test len(diff) == 2 of patchByRow: the diff is the text {}
IsEmptyDiff(diff) == DOMAIN diff = {}

\* Collection.patchByRow; orders[1] is the iteration order of indexRemove and
\* orders[2] that of indexInsert
patchByRow(c, row, patch, persist, orders) ==
    LET newPayload == MergePatch(c.Payload[row], patch)
        diff == CreateMergePatch(c.Payload[row], newPayload)
    IN  IF IsEmptyDiff(diff) THEN Result(c, NoErr, row, c.I[row], 0)
        ELSE LET rem == indexRemove(c.Indexes, orders[1], c.Payload[row])
             IN  IF rem.err # NoErr
                 THEN Result([c EXCEPT !.Indexes = rem.indexes], rem.err, row, c.I[row], 0)
                 ELSE LET ins == indexInsert(rem.indexes, orders[2], row, newPayload)
                          c2 == [c EXCEPT !.Payload[row] = newPayload, !.Indexes = ins.indexes]
                      IN  IF ins.err # NoErr THEN Result(c2, ins.err, row, c.I[row], ins.rolledBack)
                          ELSE IF ~persist THEN Result(c2, NoErr, row, c.I[row], 0)
                          ELSE LET p == persistCommand(c2, PatchCommand(c.I[row], diff))
                               IN  Result(p.c, p.err, row, c.I[row], 0)

\* the loop of createIndex that adds the rows of the table to the new index
RECURSIVE AddAllRows(_, _, _, _)
AddAllRows(index, c, n, rows) ==
    IF n = Len(rows) THEN [err |-> NoErr, index |-> index]
    ELSE LET res == AddRow(index, rows[n + 1], c.Payload[rows[n + 1]])
         IN  IF res.err # NoErr THEN res
             ELSE AddAllRows(res.index, c, n + 1, rows)

\* Collection.createIndex
createIndex(c, name, options, persist) ==
    IF name \in DOMAIN c.Indexes THEN Result(c, ErrIndexExists, 0, -1, 0)
    ELSE LET filled == AddAllRows(NewIndexMap(options), c, 0, c.Rows)
         IN  IF filled.err # NoErr THEN Result(c, filled.err, 0, -1, 0)
             ELSE LET c2 == [c EXCEPT !.Indexes =
                                [n \in (DOMAIN c.Indexes) \cup {name} |->
                                    IF n = name THEN filled.index ELSE c.Indexes[n]]]
                  IN  IF ~persist THEN Result(c2, NoErr, 0, -1, 0)
                      ELSE LET p == persistCommand(c2, CreateIndexCommand(name, options))
                           IN  Result(p.c, p.err, 0, -1, 0)

\* Collection.dropIndex
dropIndex(c, name, persist) ==
    IF name \notin DOMAIN c.Indexes THEN Result(c, ErrIndexNotFound, 0, -1, 0)
    ELSE LET c2 == [c EXCEPT !.Indexes = [n \in (DOMAIN c.Indexes) \ {name} |-> c.Indexes[n]]]
         IN  IF ~persist THEN Result(c2, NoErr, 0, -1, 0)
             ELSE LET p == persistCommand(c2, DropIndexCommand(name))
                  IN  Result(p.c, p.err, 0, -1, 0)

\* Collection.setDefaults
setDefaults(c, defaults, persist) ==
    LET c2 == [c EXCEPT !.Defaults = <<defaults>>]
    IN  IF ~persist THEN Result(c2, NoErr, 0, -1, 0)
        ELSE LET p == persistCommand(c2, SetDefaultsCommand(defaults))
             IN  Result(p.c, p.err, 0, -1, 0)

\* Collection.Close
Close(c) == [c EXCEPT !.file = "nil"]

\* ---------------------------------------------------------------- recovery
\* the indexes of S in the order perm lists them
OrderOf(perm, S) == SelectSeq(perm, LAMBDA n : n \in S)

ErrPanic == "panic: index out of range"

RECURSIVE ReplayFrom(_, _, _, _)
ReplayFrom(c, commands, n, perm) ==
    IF n = Len(commands) THEN [c |-> c, err |-> NoErr]
    ELSE LET command == commands[n + 1]
             order == OrderOf(perm, DOMAIN c.Indexes)
         IN  CASE command.name = "insert" ->
                    LET r == addRow(c, command.doc, order)
                    IN  IF r.err # NoErr THEN [c |-> r.c, err |-> r.err]
                        ELSE ReplayFrom(r.c, commands, n + 1, perm)
               [] command.name = "drop_index" ->
                    ReplayFrom(dropIndex(c, command.index, FALSE).c, commands, n + 1, perm)
               [] command.name = "index" ->
                    ReplayFrom(createIndex(c, command.index, command.options, FALSE).c,
                               commands, n + 1, perm)
               [] command.name = "remove" ->
                    IF command.i >= Len(c.Rows) THEN [c |-> c, err |-> ErrPanic]
                    ELSE ReplayFrom(removeByRow(c, c.Rows[command.i + 1], FALSE, order).c,
                                    commands, n + 1, perm)
               [] command.name = "patch" ->
                    IF command.i >= Len(c.Rows) THEN [c |-> c, err |-> ErrPanic]
                    ELSE ReplayFrom(patchByRow(c, c.Rows[command.i + 1], command.doc, FALSE,
                                               <<order, order>>).c,
                                    commands, n + 1, perm)
               [] command.name = "set_defaults" ->
                    ReplayFrom(setDefaults(c, command.doc, FALSE).c, commands, n + 1, perm)

\* OpenCollection: replays the commands of the file on an empty collection,
\* then opens the file for appending
OpenCollection(commands, perm) ==
    ReplayFrom([EmptyCollection EXCEPT !.log = commands], commands, 0, perm)

\* ---------------------------------------------------------------- database
StatusOpening == "opening"
StatusOperating == "operating"
StatusClosing == "closing"

ErrCollectionExists == "collection already exists"
ErrCollectionNotFound == "collection not found"
ErrOpen == "decode json"
ErrCloseTwice == "close: invalid argument"
ErrNoFile == "remove: no such file"

CollectionNames == {"a", "b"}
DbCallers == {1, 2}

NoCollections == [n \in {} |-> 0]
NoDbLocals == [name |-> "", col |-> 0]
NoDbReturn == [op |-> "", name |-> "", err |-> NoErr, col |-> 0]

\* Load before it is started: pc is its position, filenames what the walk
\* found, opener the state of the goroutine of each file ("todo", "opened",
\* "installed" or "failed"), col the collection each goroutine opened,
\* firstErr the first error recorded, err what Load returned
NoLoad == [pc |-> "none", filenames |-> {}, opener |-> [n \in {} |-> ""],
           col |-> [n \in {} |-> 0], firstErr |-> NoErr, err |-> NoErr]

\* Stop before it is called: collections is the copy ListCollections made,
\* lastErr the error to return
NoStop == [pc |-> "idle", collections |-> NoCollections, lastErr |-> NoErr]

\* ---------------------------------------------------------------- replication bus
Publishers == {1, 2}
SubscriberIds == {1, 2}

\* ---------------------------------------------------------------- state machine
Col ==
    [Rows |-> Rows, I |-> I, Payload |-> Payload, Indexes |-> Indexes,
     Defaults |-> Defaults, Count |-> Count, file |-> file, log |-> log]

SetCol(c) ==
    /\ Rows' = c.Rows
    /\ I' = c.I
    /\ Payload' = c.Payload
    /\ Indexes' = c.Indexes
    /\ Defaults' = c.Defaults
    /\ Count' = c.Count
    /\ file' = c.file
    /\ log' = c.log

\* the record of a call: its name, its arguments and what it returned
Returned(op, arg, name, res) ==
    [op |-> op, arg |-> arg, name |-> name, err |-> res.err, row |-> res.row, i |-> res.i,
     rolledBack |-> res.rolledBack, logged |-> Len(res.c.log) > Len(log)]

Finish(op, arg, name, res) ==
    /\ \A g \in Goroutines : pc[g] = "idle"
    /\ SetCol(res.c)
    /\ UNCHANGED goVars
    /\ UNCHANGED extVars
    /\ nops' = nops + 1
    /\ allOk' = (allOk /\ res.err = NoErr)
    /\ ret' = Returned(op, arg, name, res)

\* the locals of a call: the row it works on, the iteration order over the
\* indexes, the number k of indexes done, the number j of indexes rolled back,
\* the position i, the error to return, the new payload doc and the diff of a
\* Patch, the name of the index and the copy of the row table of a CreateIndex
NoLocals ==
    [op |-> "", row |-> 0, order |-> <<>>, k |-> 0, j |-> 0, i |-> -1, err |-> NoErr,
     doc |-> EmptyObject, diff |-> EmptyObject, name |-> "", rows |-> <<>>]

\* NewDatabase, on an empty directory
InitDatabase ==
    /\ status = StatusOpening
    /\ Collections = NoCollections
    /\ cols = <<>>
    /\ files = {}
    /\ corrupt = {}
    /\ exit = FALSE
    /\ dcalls = 0
    /\ dpc = [g \in DbCallers |-> "idle"]
    /\ dlocal = [g \in DbCallers |-> NoDbLocals]
    /\ dret = [g \in DbCallers |-> NoDbReturn]
    /\ start = "idle"
    /\ load = NoLoad
    /\ stop = NoStop

\* NewManager: an open incoming channel, no subscriber, the loop started
InitManager ==
    /\ manager = [incoming |-> <<>>, closed |-> FALSE, isnil |-> FALSE, subscribers |-> {}]
    /\ chans = <<>>
    /\ loop = [pc |-> "receive", event |-> 0, todo |-> {}, drop |-> {}, done |-> 0]
    /\ pub = [p \in Publishers |-> "idle"]
    /\ closer = "idle"
    /\ busHist = [published |-> 0, calls |-> 0, panicked |-> FALSE]

\* ---------------------------------------------------------------- replication: values
\* A command of the primary is named by the collection and its position in
\* the file of that collection.  An event carries the collection, the command
\* and the start_byte the command was encoded with.

\* the encoded length of a command, without the newline that ends its line
CommandLen == 2

\* decoder.InputOffset() after n commands of a file were decoded: the offset
\* right after the last decoded value, in front of the newline that follows it
InputOffset(n) == IF n = 0 THEN 0 ELSE n * (CommandLen + 1) - 1

\* Command{StartByte: 0}, as every mutation writes it
StoredCommand(id) == [id |-> id, start |-> 0]

Event(collection, id, startByte) ==
    [collection |-> collection, id |-> id, start |-> startByte]

\* m[name] of a Go map: the zero value when the key is missing
At(m, name) == IF name \in DOMAIN m THEN m[name] ELSE 0

\* delete(m, name)
Without(m, name) == [k \in (DOMAIN m) \ {name} |-> m[k]]

\* m[name] = v
With(m, name, v) == [k \in (DOMAIN m) \cup {name} |-> IF k = name THEN v ELSE m[k]]

NoEvent == Event("", 0, 0)

\* parseSince: the tokens name:offset in the order of the query; of two tokens
\* for one name the larger offset stays
RECURSIVE parseSinceFrom(_, _)
parseSinceFrom(values, offsets) ==
    IF values = <<>> THEN offsets
    ELSE LET value == Head(values)
         IN  parseSinceFrom(Tail(values),
                 IF value.name \notin DOMAIN offsets \/ value.offset > offsets[value.name]
                 THEN With(offsets, value.name, value.offset)
                 ELSE offsets)

parseSince(values) == parseSinceFrom(values, <<>>)

\* a history that stamps nothing
StampOf_Unstamped(command, startOffset) == command.start

\* the start_byte of a decoded command: the one it was written with, or the
\* offset it was decoded at when it was written with 0
StampOf(command, startOffset) ==
    IF command.start = 0 THEN startOffset ELSE command.start

\* a filter that also lets a command through that ends at skipUntil
Skipped_OffByOne(StartByte, skipUntil) == skipUntil > 0 /\ StartByte + 1 < skipUntil

\* the test that leaves a command out of the history
Skipped(StartByte, skipUntil) == skipUntil > 0 /\ StartByte < skipUntil

\* streamCollectionHistory: the file is decoded command by command up to its
\* end; n commands are decoded so far
RECURSIVE historyFrom(_, _, _, _)
historyFrom(name, commands, n, skipUntil) ==
    IF n = Len(commands) THEN <<>>
    ELSE LET StartByte == StampOf(commands[n + 1], InputOffset(n))
         IN  IF Skipped(StartByte, skipUntil)
             THEN historyFrom(name, commands, n + 1, skipUntil)
             ELSE <<Event(name, commands[n + 1].id, StartByte)>>
                      \o historyFrom(name, commands, n + 1, skipUntil)

streamCollectionHistory(name, commands, skipUntil) ==
    historyFrom(name, commands, 0, skipUntil)

\* snapshotPositions: the entries of the progress that are positive
snapshotPositions(progress) ==
    [name \in {k \in DOMAIN progress : progress[k] > 0} |-> progress[name]]

\* the since tokens of the request, one for every position of the snapshot
RECURSIVE SinceTokens(_)
SinceTokens(positions) ==
    IF DOMAIN positions = {} THEN <<>>
    ELSE LET name == CHOOSE k \in DOMAIN positions : TRUE
         IN  <<[name |-> name, offset |-> positions[name]]>>
                 \o SinceTokens(Without(positions, name))

NoStream == [pc |-> "idle", request |-> <<>>, offsets |-> <<>>, id |-> 0, todo |-> {},
             gone |-> FALSE]

NoLast == [action |-> "", event |-> NoEvent, err |-> NoErr]

\* NewSecondary on a directory without progress file, Start called; the
\* primary without commands
InitSecondary ==
    /\ plog = [name \in CollectionNames |-> <<>>]
    /\ events = [sent |-> <<>>, pending |-> [p \in Publishers |-> NoEvent]]
    /\ stream = NoStream
    /\ wire = <<>>
    /\ sec = [pc |-> "status", operating |-> FALSE, progress |-> <<>>, progressFile |-> <<>>,
              cols |-> <<>>, ctx |-> "none", stop |-> FALSE, done |-> FALSE, last |-> NoLast]
    /\ stopper = "idle"
    /\ repHist = [commits |-> 0, connects |-> 0, faults |-> 0, reset |-> {}]

\* ---------------------------------------------------------------- bulk insert: values
\* The lines of a request body are JSON values; a line that is not an object
\* cannot be decoded into the map of the handler.
ErrUnmarshal == "unmarshal"
ErrCanceled == "context canceled"

BulkLines ==
    { Obj(Obj1("id", Str("a"))),
      Obj(Obj2("id", Str("b"), "tag", Str("a"))),
      Arr(<<"a">>) }

RECURSIVE BodiesOf(_)
BodiesOf(n) ==
    IF n = 0 THEN {<<>>}
    ELSE BodiesOf(n - 1) \cup { Append(b, l) : b \in { x \in BodiesOf(n - 1) : Len(x) = n - 1 },
                                               l \in BulkLines }

Bodies == BodiesOf(MaxBody)

\* runtime.GOMAXPROCS(0) on the machines considered
WorkerCounts == {1, 2}

\* jobs := make(chan parseJob, workers*2)
JobsCap(workers) == workers * 2

\* results := make(chan parseResult, workers*4)
ResultsCap(workers) == workers * 4

\* json2.Unmarshal(job.data, &item) of a worker, as the parseResult it sends
Unmarshal(seq, data) ==
    IF IsObj(data) THEN [seq |-> seq, item |-> <<data[2]>>, err |-> NoErr]
    ELSE [seq |-> seq, item |-> <<>>, err |-> ErrUnmarshal]

\* the handler with its goroutines started: the reader at the top of its
\* loop, the workers ranging over jobs, the main loop ranging over results
StartBulk(body, workers) ==
    [body |-> body, workers |-> workers,
     reader |-> "loop", seq |-> 0, readErr |-> NoErr, readErrCh |-> <<>>,
     jobs |-> <<>>, jobsClosed |-> FALSE,
     worker |-> [w \in 1..workers |-> [pc |-> "range", res |-> <<>>]],
     results |-> <<>>, resultsClosed |-> FALSE,
     main |-> "range", pending |-> {}, nextSeq |-> 0, inserted |-> 0,
     processErr |-> NoErr, cancelled |-> FALSE, err |-> NoErr,
     reordered |-> FALSE]

\* no request is being served
NoBulk == [StartBulk(<<>>, 0) EXCEPT !.reader = "done", !.main = "idle"]

InitBulk == bulk = NoBulk

\* the merge-patch variables before any document was diffed
InitDoc ==
    /\ docA = EmptyObject
    /\ docB = EmptyObject
    /\ docDiff = EmptyObject
    /\ docOut = EmptyObject
    /\ docStage = "start"

\* a collection as the calls made before have left it, no call running
InitCollectionAs(c) ==
    /\ Rows = c.Rows
    /\ I = c.I
    /\ Payload = c.Payload
    /\ Indexes = c.Indexes
    /\ Defaults = c.Defaults
    /\ Count = c.Count
    /\ file = c.file
    /\ log = c.log
    /\ nops = 0
    /\ allOk = TRUE
    /\ ret = [op |-> "", arg |-> EmptyObject, name |-> "", err |-> NoErr, row |-> 0, i |-> -1,
              rolledBack |-> 0, logged |-> FALSE]
    /\ pc = [g \in Goroutines |-> "idle"]
    /\ local = [g \in Goroutines |-> NoLocals]
    /\ rowsMutex = 0
    /\ returned = [g \in Goroutines |-> [op |-> "", err |-> NoErr, row |-> 0]]

InitCollection ==
    /\ Rows = EmptyCollection.Rows
    /\ I = EmptyCollection.I
    /\ Payload = EmptyCollection.Payload
    /\ Indexes = EmptyCollection.Indexes
    /\ Defaults = EmptyCollection.Defaults
    /\ Count = EmptyCollection.Count
    /\ file = EmptyCollection.file
    /\ log = EmptyCollection.log
    /\ nops = 0
    /\ allOk = TRUE
    /\ ret = [op |-> "", arg |-> EmptyObject, name |-> "", err |-> NoErr, row |-> 0, i |-> -1,
              rolledBack |-> 0, logged |-> FALSE]
    /\ pc = [g \in Goroutines |-> "idle"]
    /\ local = [g \in Goroutines |-> NoLocals]
    /\ rowsMutex = 0
    /\ returned = [g \in Goroutines |-> [op |-> "", err |-> NoErr, row |-> 0]]

Init ==
    /\ InitCollection
    /\ InitDoc
    /\ InitDatabase
    /\ InitManager
    /\ InitSecondary
    /\ InitBulk

CallInsert ==
    /\ nops < MaxOps
    /\ Len(I) < MaxRows
    /\ \E item \in Items, order \in Orders(DOMAIN Indexes) :
         Finish("Insert", item, "", Insert(Col, item, order))

\* Remove takes a *Row: any row handed out so far, in the table or not
CallRemove ==
    /\ nops < MaxOps
    /\ \E row \in DOMAIN I, order \in Orders(DOMAIN Indexes) :
         Finish("Remove", EmptyObject, "", removeByRow(Col, row, TRUE, order))

CallPatch ==
    /\ nops < MaxOps
    /\ \E row \in DOMAIN I, patch \in Patches, o1, o2 \in Orders(DOMAIN Indexes) :
         Finish("Patch", patch, "", patchByRow(Col, row, patch, TRUE, <<o1, o2>>))

CallCreateIndex ==
    /\ nops < MaxOps
    /\ \E name \in IndexNames, options \in IndexOptions :
         Finish("CreateIndex", EmptyObject, name, createIndex(Col, name, options, TRUE))

CallDropIndex ==
    /\ nops < MaxOps
    /\ \E name \in IndexNames :
         Finish("DropIndex", EmptyObject, name, dropIndex(Col, name, TRUE))

CallSetDefaults ==
    /\ nops < MaxOps
    /\ \E defaults \in DefaultsInputs :
         Finish("SetDefaults", defaults, "", setDefaults(Col, defaults, TRUE))

CallClose ==
    /\ nops < MaxOps
    /\ file # "nil"
    /\ Finish("Close", EmptyObject, "", Result(Close(Col), NoErr, 0, -1, 0))

\* DELETE FROM the collection: the filter selects any set of rows of the table
CallDelete ==
    /\ nops < MaxOps
    /\ \E selected \in SUBSET {Rows[p] : p \in 1..Len(Rows)}, order \in Orders(DOMAIN Indexes) :
         Finish("Delete", EmptyObject, "", handleDelete(Col, selected, order))

\* the file system starts to refuse writes (disk full, I/O error)
WriteFailure ==
    /\ file = "open"
    /\ file' = "failing"
    /\ UNCHANGED <<Rows, I, Payload, Indexes, Defaults, Count, log, nops, allOk, ret>>
    /\ UNCHANGED goVars
    /\ UNCHANGED extVars

Next ==
    \/ CallInsert
    \/ CallRemove
    \/ CallPatch
    \/ CallCreateIndex
    \/ CallDropIndex
    \/ CallSetDefaults
    \/ CallClose
    \/ WriteFailure

Spec == Init /\ [][Next]_vars

\* the calls of the handlers that fill, change and empty a collection
NextDelete ==
    \/ CallInsert
    \/ CallPatch
    \/ CallCreateIndex
    \/ CallDelete

SpecDelete == Init /\ [][NextDelete]_vars

\* ---------------------------------------------------------------- goroutines
\* The same calls made by goroutines that run at the same time.  A step is what
\* a goroutine does without releasing a lock: one read-locked or write-locked
\* section of an index, one section under rowsMutex, one write to the file.

Return(g, op, err, row) ==
    /\ pc' = [pc EXCEPT ![g] = "idle"]
    /\ local' = [local EXCEPT ![g] = NoLocals]
    /\ returned' = [returned EXCEPT ![g] = [op |-> op, err |-> err, row |-> row]]
    /\ UNCHANGED extVars

Goto(g, label, locals) ==
    /\ pc' = [pc EXCEPT ![g] = label]
    /\ local' = [local EXCEPT ![g] = locals]
    /\ UNCHANGED returned
    /\ UNCHANGED extVars

\* Insert up to the call of indexInsert: the closed check, the counter, the
\* defaults, the new Row (its I still 0)
InsertBegin(g) ==
    /\ pc[g] = "idle"
    /\ nops < MaxCalls
    /\ Len(I) < MaxRows
    /\ \E item \in Items, order \in Orders(DOMAIN Indexes) :
         IF file = "nil"
         THEN /\ Return(g, "Insert", ErrClosed, 0)
              /\ UNCHANGED <<Count, I, Payload>>
         ELSE LET auto == Count + 1
                  payload == IF Defaults = <<>> THEN item
                             ELSE ApplyDefaults(Defaults[1], auto, item)
              IN  /\ Count' = auto
                  /\ I' = Append(I, 0)
                  /\ Payload' = Append(Payload, payload)
                  /\ Goto(g, IF order = <<>> THEN "InsertAppend" ELSE "AddRowCheck",
                          [NoLocals EXCEPT !.op = "Insert", !.row = Len(I) + 1, !.order = order])
    /\ nops' = nops + 1
    /\ UNCHANGED <<Rows, Indexes, Defaults, file, log, rowsMutex, seqVars>>

\* the range over c.Indexes of indexInsert produces the index: an entry
\* deleted from the map before the iteration reaches it is not produced, and
\* what is done to an index deleted meanwhile does not show in the map
Produced(name) == name \in DOMAIN Indexes

\* what indexInsert does after an AddRow returned an error: roll back the k
\* indexes done, or return at once when there is none
AfterAddRowError(g, err) ==
    IF local[g].k = 0
    THEN Return(g, "Insert", err, local[g].row)
    ELSE Goto(g, "InsertRollback", [local[g] EXCEPT !.err = err])

\* what indexInsert does after an AddRow returned nil: the next index, or the
\* append to the table
AfterAddRow(g) ==
    Goto(g, IF local[g].k + 1 = Len(local[g].order) THEN "InsertAppend" ELSE "AddRowCheck",
         [local[g] EXCEPT !.k = local[g].k + 1])

\* IndexMap.AddRow on the next index, up to the release of the read lock
InsertAddRowCheck(g) ==
    /\ pc[g] = "AddRowCheck"
    /\ IF Produced(local[g].order[local[g].k + 1])
       THEN LET index == Indexes[local[g].order[local[g].k + 1]]
                err == AddRowCheck(index, Payload[local[g].row])
            IN  IF err # NoErr THEN AfterAddRowError(g, err)
                ELSE IF index.field \notin DOMAIN Payload[local[g].row] THEN AfterAddRow(g)
                ELSE Goto(g, "AddRowStore", local[g])
       ELSE AfterAddRow(g)
    /\ UNCHANGED <<colVars, nops, rowsMutex, seqVars>>

\* IndexMap.AddRow on the same index, the section under the write lock
InsertAddRowStore(g) ==
    /\ pc[g] = "AddRowStore"
    /\ LET name == local[g].order[local[g].k + 1]
       IN  Indexes' = IF Produced(name)
                      THEN [Indexes EXCEPT ![name] =
                               AddRowStore(Indexes[name], local[g].row, Payload[local[g].row])]
                      ELSE Indexes
    /\ AfterAddRow(g)
    /\ UNCHANGED <<Rows, I, Payload, Defaults, Count, file, log, nops, rowsMutex, seqVars>>

\* the deferred rollback of indexInsert, one RemoveRow at a time
InsertRollback(g) ==
    /\ pc[g] = "InsertRollback"
    /\ LET name == local[g].order[local[g].j + 1]
       IN  Indexes' = IF Produced(name)
                      THEN [Indexes EXCEPT ![name] =
                               RemoveRow(Indexes[name], Payload[local[g].row]).index]
                      ELSE Indexes
    /\ IF local[g].j + 1 = local[g].k
       THEN Return(g, "Insert", local[g].err, local[g].row)
       ELSE Goto(g, "InsertRollback", [local[g] EXCEPT !.j = local[g].j + 1])
    /\ UNCHANGED <<Rows, I, Payload, Defaults, Count, file, log, nops, rowsMutex, seqVars>>

\* addRow, the section under rowsMutex
InsertAppend(g) ==
    /\ pc[g] = "InsertAppend"
    /\ rowsMutex = 0
    /\ I' = [I EXCEPT ![local[g].row] = Len(Rows)]
    /\ Rows' = Append(Rows, local[g].row)
    /\ Goto(g, "InsertPersist", local[g])
    /\ UNCHANGED <<Payload, Indexes, Defaults, Count, file, log, nops, rowsMutex, seqVars>>

\* Insert, the call of persistCommand
InsertPersist(g) ==
    /\ pc[g] = "InsertPersist"
    /\ LET p == persistCommand(Col, InsertCommand(Payload[local[g].row]))
       IN  /\ log' = p.c.log
           /\ Return(g, "Insert", p.err, local[g].row)
    /\ UNCHANGED <<Rows, I, Payload, Indexes, Defaults, Count, file, nops, rowsMutex, seqVars>>

\* removeByRow: the lock of rowsMutex and the range check
RemoveBegin(g) ==
    /\ pc[g] = "idle"
    /\ nops < MaxCalls
    /\ rowsMutex = 0
    /\ \E row \in DOMAIN I, order \in Orders(DOMAIN Indexes) :
         IF Len(Rows) <= I[row]
         THEN /\ Return(g, "Remove", ErrRowMissing, row)
              /\ UNCHANGED rowsMutex
         ELSE /\ rowsMutex' = g
              /\ Goto(g, IF order = <<>> THEN "RemoveSwap" ELSE "RemoveIndex",
                      [NoLocals EXCEPT !.op = "Remove", !.row = row, !.order = order, !.i = I[row]])
    /\ nops' = nops + 1
    /\ UNCHANGED <<colVars, seqVars>>

\* removeByRow: indexRemove, one RemoveRow at a time, rowsMutex held
RemoveIndex(g) ==
    /\ pc[g] = "RemoveIndex"
    /\ LET name == local[g].order[local[g].k + 1]
           res == RemoveRow(Indexes[name], Payload[local[g].row])
       IN  IF res.err # NoErr
           THEN /\ rowsMutex' = 0
                /\ Return(g, "Remove", ErrFreeIndex, local[g].row)
                /\ UNCHANGED Indexes
           ELSE /\ Indexes' = [Indexes EXCEPT ![name] = res.index]
                /\ Goto(g, IF local[g].k + 1 = Len(local[g].order) THEN "RemoveSwap" ELSE "RemoveIndex",
                        [local[g] EXCEPT !.k = local[g].k + 1])
                /\ UNCHANGED rowsMutex
    /\ UNCHANGED <<Rows, I, Payload, Defaults, Count, file, log, nops, seqVars>>

\* removeByRow: the swap with the last row and the unlock of rowsMutex
RemoveSwap(g) ==
    /\ pc[g] = "RemoveSwap"
    /\ LET c == SwapWithLast(Col, local[g].i)
       IN  /\ Rows' = c.Rows
           /\ I' = c.I
    /\ rowsMutex' = 0
    /\ Goto(g, "RemovePersist", local[g])
    /\ UNCHANGED <<Payload, Indexes, Defaults, Count, file, log, nops, seqVars>>

\* removeByRow: the call of persistCommand
RemovePersist(g) ==
    /\ pc[g] = "RemovePersist"
    /\ LET p == persistCommand(Col, RemoveCommand(local[g].i))
       IN  /\ log' = p.c.log
           /\ Return(g, "Remove", p.err, local[g].row)
    /\ UNCHANGED <<Rows, I, Payload, Indexes, Defaults, Count, file, nops, rowsMutex, seqVars>>

\* CreateIndex called while no other call is running
CreateIndexAlone ==
    /\ nops < MaxCalls
    /\ \A g \in Goroutines : pc[g] = "idle"
    /\ \E name \in IndexNames, options \in IndexOptions :
         SetCol(createIndex(Col, name, options, TRUE).c)
    /\ nops' = nops + 1
    /\ UNCHANGED <<seqVars, goVars>>
    /\ UNCHANGED extVars

NextConc ==
    \/ CreateIndexAlone
    \/ \E g \in Goroutines :
         \/ InsertBegin(g)
         \/ InsertAddRowCheck(g)
         \/ InsertAddRowStore(g)
         \/ InsertRollback(g)
         \/ InsertAppend(g)
         \/ InsertPersist(g)
         \/ RemoveBegin(g)
         \/ RemoveIndex(g)
         \/ RemoveSwap(g)
         \/ RemovePersist(g)

SpecConc == Init /\ [][NextConc]_vars

\* ---------------------------------------------------------------- goroutines: Patch
\* The handlers of PATCH and of UPDATE lock row.PatchMutex, call
\* Collection.Patch and unlock; patchByRow itself takes no lock of the
\* collection.  A step is one locked section of an index, the write of
\* row.Payload, or the write to the file.

\* a collection as two Inserts and two CreateIndex leave it: two rows, a
\* non-sparse index on "id" and a sparse index on "tag"
LoadedCollection ==
    createIndex(
        createIndex(Insert(Insert(EmptyCollection, Obj1("id", Str("a")), <<>>).c,
                           Obj2("id", Str("b"), "tag", Str("a")), <<>>).c,
                    "x1", [field |-> "id", sparse |-> FALSE], TRUE).c,
        "x2", [field |-> "tag", sparse |-> TRUE], TRUE).c

InitLoaded ==
    /\ InitCollectionAs(LoadedCollection)
    /\ InitDoc
    /\ InitDatabase
    /\ InitManager
    /\ InitSecondary
    /\ InitBulk

\* a PatchMutex no handler ever finds locked
PatchMutexHeld_Never(row) == FALSE

\* row.PatchMutex is held by the handler that is inside its Patch of the row
PatchMutexHeld(row) ==
    \E g \in Goroutines : pc[g] # "idle" /\ local[g].op = "Patch" /\ local[g].row = row

\* Patch returns to its handler, which unlocks row.PatchMutex
PatchReturn(g, err, row) ==
    /\ Return(g, "Patch", err, row)
    /\ allOk' = (allOk /\ err = NoErr)
    /\ UNCHANGED ret

\* the handler locks row.PatchMutex and calls Patch; patchByRow merges the
\* patch into the payload, computes the diff and returns when it is empty
PatchBegin(g) ==
    /\ pc[g] = "idle"
    /\ nops < MaxCalls
    /\ \E row \in DOMAIN I, patch \in Patches, order \in Orders(DOMAIN Indexes) :
         /\ ~PatchMutexHeld(row)
         /\ LET newPayload == MergePatch(Payload[row], patch)
                diff == CreateMergePatch(Payload[row], newPayload)
            IN  IF IsEmptyDiff(diff)
                THEN PatchReturn(g, NoErr, row)
                ELSE /\ Goto(g, IF order = <<>> THEN "PatchSetPayload" ELSE "PatchIndexRemove",
                             [NoLocals EXCEPT !.op = "Patch", !.row = row, !.order = order,
                                              !.doc = newPayload, !.diff = diff])
                     /\ UNCHANGED seqVars
    /\ nops' = nops + 1
    /\ UNCHANGED <<colVars, rowsMutex>>

\* patchByRow: indexRemove, one RemoveRow at a time
PatchIndexRemove(g) ==
    /\ pc[g] = "PatchIndexRemove"
    /\ LET name == local[g].order[local[g].k + 1]
           res == RemoveRow(Indexes[name], Payload[local[g].row])
       IN  IF res.err # NoErr
           THEN /\ PatchReturn(g, res.err, local[g].row)
                /\ UNCHANGED Indexes
           ELSE /\ Indexes' = [Indexes EXCEPT ![name] = res.index]
                /\ Goto(g, IF local[g].k + 1 = Len(local[g].order)
                           THEN "PatchSetPayload" ELSE "PatchIndexRemove",
                        [local[g] EXCEPT !.k = local[g].k + 1])
                /\ UNCHANGED seqVars
    /\ UNCHANGED <<Rows, I, Payload, Defaults, Count, file, log, nops, rowsMutex>>

\* patchByRow: row.Payload = newPayload, then the iteration of indexInsert
\* begins
PatchSetPayload(g) ==
    /\ pc[g] = "PatchSetPayload"
    /\ Payload' = [Payload EXCEPT ![local[g].row] = local[g].doc]
    /\ \E order \in Orders(DOMAIN Indexes) :
         Goto(g, IF order = <<>> THEN "PatchPersist" ELSE "PatchAddRowCheck",
              [local[g] EXCEPT !.order = order, !.k = 0])
    /\ UNCHANGED <<Rows, I, Indexes, Defaults, Count, file, log, nops, rowsMutex, seqVars>>

\* what indexInsert does after an AddRow of patchByRow returned nil
PatchAfterAddRow(g) ==
    Goto(g, IF local[g].k + 1 = Len(local[g].order) THEN "PatchPersist" ELSE "PatchAddRowCheck",
         [local[g] EXCEPT !.k = local[g].k + 1])

\* patchByRow: IndexMap.AddRow on the next index, up to the release of the
\* read lock; on an error the indexes done are rolled back and Patch returns
\* with the new payload in place
PatchAddRowCheck(g) ==
    /\ pc[g] = "PatchAddRowCheck"
    /\ LET index == Indexes[local[g].order[local[g].k + 1]]
           err == AddRowCheck(index, Payload[local[g].row])
       IN  IF err # NoErr
           THEN IF local[g].k = 0
                THEN PatchReturn(g, err, local[g].row)
                ELSE /\ Goto(g, "PatchRollback", [local[g] EXCEPT !.err = err])
                     /\ UNCHANGED seqVars
           ELSE /\ IF index.field \notin DOMAIN Payload[local[g].row]
                   THEN PatchAfterAddRow(g)
                   ELSE Goto(g, "PatchAddRowStore", local[g])
                /\ UNCHANGED seqVars
    /\ UNCHANGED <<colVars, nops, rowsMutex>>

\* patchByRow: IndexMap.AddRow on the same index, the section under the write
\* lock
PatchAddRowStore(g) ==
    /\ pc[g] = "PatchAddRowStore"
    /\ LET name == local[g].order[local[g].k + 1]
       IN  Indexes' = [Indexes EXCEPT ![name] =
                          AddRowStore(Indexes[name], local[g].row, Payload[local[g].row])]
    /\ PatchAfterAddRow(g)
    /\ UNCHANGED <<Rows, I, Payload, Defaults, Count, file, log, nops, rowsMutex, seqVars>>

\* patchByRow: the deferred rollback of indexInsert, one RemoveRow at a time
PatchRollback(g) ==
    /\ pc[g] = "PatchRollback"
    /\ LET name == local[g].order[local[g].j + 1]
       IN  Indexes' = [Indexes EXCEPT ![name] =
                          RemoveRow(Indexes[name], Payload[local[g].row]).index]
    /\ IF local[g].j + 1 = local[g].k
       THEN PatchReturn(g, local[g].err, local[g].row)
       ELSE /\ Goto(g, "PatchRollback", [local[g] EXCEPT !.j = local[g].j + 1])
            /\ UNCHANGED seqVars
    /\ UNCHANGED <<Rows, I, Payload, Defaults, Count, file, log, nops, rowsMutex>>

\* patchByRow: the command carries row.I as it is now and the diff computed
\* at the beginning; then the handler unlocks row.PatchMutex
PatchPersist(g) ==
    /\ pc[g] = "PatchPersist"
    /\ LET p == persistCommand(Col, PatchCommand(I[local[g].row], local[g].diff))
       IN  /\ log' = p.c.log
           /\ PatchReturn(g, p.err, local[g].row)
    /\ UNCHANGED <<Rows, I, Payload, Indexes, Defaults, Count, file, nops, rowsMutex>>

PatchStep(g) ==
    \/ PatchBegin(g)
    \/ PatchIndexRemove(g)
    \/ PatchSetPayload(g)
    \/ PatchAddRowCheck(g)
    \/ PatchAddRowStore(g)
    \/ PatchRollback(g)
    \/ PatchPersist(g)

\* handlers that patch rows at the same time
NextPatchers == \E g \in Goroutines : PatchStep(g)

SpecPatchers == InitLoaded /\ [][NextPatchers]_vars

\* handlers that patch and remove rows at the same time
NextPatchRemove ==
    \E g \in Goroutines :
        \/ PatchStep(g)
        \/ RemoveBegin(g)
        \/ RemoveIndex(g)
        \/ RemoveSwap(g)
        \/ RemovePersist(g)

SpecPatchRemove == InitLoaded /\ [][NextPatchRemove]_vars

\* ---------------------------------------------------------------- goroutines: CreateIndex
\* createIndex run at the same time as Insert.  The new index is put in
\* c.Indexes before the rows are added to it, and taken out again when a row
\* cannot be added.

\* c.Indexes[name] = index
Installed(indexes, name, index) ==
    [n \in (DOMAIN indexes) \cup {name} |-> IF n = name THEN index ELSE indexes[n]]

\* delete(c.Indexes, name)
Deleted(indexes, name) == [n \in (DOMAIN indexes) \ {name} |-> indexes[n]]

\* createIndex: the test of the name, the new index, c.Indexes[name] = index
CreateIndexBegin(g) ==
    /\ pc[g] = "idle"
    /\ nops < MaxCalls
    /\ \E name \in IndexNames, options \in IndexOptions :
         IF name \in DOMAIN Indexes
         THEN /\ Return(g, "CreateIndex", ErrIndexExists, 0)
              /\ UNCHANGED Indexes
         ELSE /\ Indexes' = Installed(Indexes, name, NewIndexMap(options))
              /\ Goto(g, "CreateIndexSnapshot",
                      [NoLocals EXCEPT !.op = "CreateIndex", !.name = name])
    /\ nops' = nops + 1
    /\ UNCHANGED <<Rows, I, Payload, Defaults, Count, file, log, rowsMutex, seqVars>>

\* createIndex: the copy of c.Rows under rowsMutex.RLock
CreateIndexSnapshot(g) ==
    /\ pc[g] = "CreateIndexSnapshot"
    /\ rowsMutex = 0
    /\ Goto(g, IF Rows = <<>> THEN "CreateIndexPersist" ELSE "CreateIndexAddRow",
            [local[g] EXCEPT !.rows = Rows])
    /\ UNCHANGED <<colVars, nops, rowsMutex, seqVars>>

\* createIndex: index.AddRow on the next row of the copy; on an error the
\* index is deleted from c.Indexes and the error returned
CreateIndexAddRow(g) ==
    /\ pc[g] = "CreateIndexAddRow"
    /\ LET name == local[g].name
           row == local[g].rows[local[g].k + 1]
           res == AddRow(Indexes[name], row, Payload[row])
       IN  IF res.err # NoErr
           THEN /\ Indexes' = Deleted(Indexes, name)
                /\ Return(g, "CreateIndex", res.err, row)
           ELSE /\ Indexes' = [Indexes EXCEPT ![name] = res.index]
                /\ Goto(g, IF local[g].k + 1 = Len(local[g].rows)
                           THEN "CreateIndexPersist" ELSE "CreateIndexAddRow",
                        [local[g] EXCEPT !.k = local[g].k + 1])
    /\ UNCHANGED <<Rows, I, Payload, Defaults, Count, file, log, nops, rowsMutex, seqVars>>

\* createIndex: the call of persistCommand
CreateIndexPersist(g) ==
    /\ pc[g] = "CreateIndexPersist"
    /\ LET name == local[g].name
           p == persistCommand(Col, CreateIndexCommand(name,
                    [field |-> Indexes[name].field, sparse |-> Indexes[name].sparse]))
       IN  /\ log' = p.c.log
           /\ Return(g, "CreateIndex", p.err, 0)
    /\ UNCHANGED <<Rows, I, Payload, Indexes, Defaults, Count, file, nops, rowsMutex, seqVars>>

\* goroutines that insert rows and create indexes at the same time
NextIndexers ==
    \E g \in Goroutines :
        \/ InsertBegin(g)
        \/ InsertAddRowCheck(g)
        \/ InsertAddRowStore(g)
        \/ InsertRollback(g)
        \/ InsertAppend(g)
        \/ InsertPersist(g)
        \/ CreateIndexBegin(g)
        \/ CreateIndexSnapshot(g)
        \/ CreateIndexAddRow(g)
        \/ CreateIndexPersist(g)

SpecIndexers == Init /\ [][NextIndexers]_vars

\* ---------------------------------------------------------------- merge patch round trip
\* The diff of patchByRow and its replay by OpenCollection, on documents drawn
\* from JsonObjects.

InitPatch ==
    /\ InitCollection
    /\ InitDatabase
    /\ InitManager
    /\ InitSecondary
    /\ InitBulk
    /\ docA \in JsonObjects
    /\ docB \in JsonObjects
    /\ docDiff = EmptyObject
    /\ docOut = EmptyObject
    /\ docStage = "start"

\* the diff from one document to any other
DiffDocuments ==
    /\ docStage = "start"
    /\ docDiff' = CreateMergePatch(docA, docB)
    /\ docStage' = "diffed of two"
    /\ UNCHANGED <<docA, docB, docOut>>
    /\ UNCHANGED <<colVars, nops, seqVars, goVars, dbVars, lifeVars, busVars, repVars, bulkVars>>

\* patchByRow: the new payload is the old one with the patch merged in, the
\* diff is computed from the old payload to the new one
PatchDocument ==
    /\ docStage = "start"
    /\ \E patch \in JsonObjects :
         LET newPayload == MergePatch(docA, patch)
         IN  /\ docB' = newPayload
             /\ docDiff' = CreateMergePatch(docA, newPayload)
    /\ docStage' = "diffed of patch"
    /\ UNCHANGED <<docA, docOut>>
    /\ UNCHANGED <<colVars, nops, seqVars, goVars, dbVars, lifeVars, busVars, repVars, bulkVars>>

\* OpenCollection, the patch case: the logged diff is merged into the old
\* payload
ReplayDiff ==
    /\ docStage \in {"diffed of two", "diffed of patch"}
    /\ docOut' = MergePatch(docA, docDiff)
    /\ docStage' = IF docStage = "diffed of two" THEN "replayed of two" ELSE "replayed of patch"
    /\ UNCHANGED <<docA, docB, docDiff>>
    /\ UNCHANGED <<colVars, nops, seqVars, goVars, dbVars, lifeVars, busVars, repVars, bulkVars>>

NextPatch ==
    \/ DiffDocuments
    \/ PatchDocument
    \/ ReplayDiff

SpecPatch == InitPatch /\ [][NextPatch]_vars

\* ---------------------------------------------------------------- database registry
\* CreateCollection, GetCollection and DropCollection called by goroutines that
\* run at the same time on a database that is operating.  A step is one section
\* under collectionsMu, or one call into the collection or the file system.

InitRegistry ==
    /\ InitCollection
    /\ InitDoc
    /\ InitManager
    /\ InitSecondary
    /\ InitBulk
    /\ status = StatusOperating
    /\ Collections = NoCollections
    /\ cols = <<>>
    /\ files = {}
    /\ corrupt = {}
    /\ exit = FALSE
    /\ dcalls = 0
    /\ dpc = [g \in DbCallers |-> "idle"]
    /\ dlocal = [g \in DbCallers |-> NoDbLocals]
    /\ dret = [g \in DbCallers |-> NoDbReturn]
    /\ start = "idle"
    /\ load = NoLoad
    /\ stop = NoStop

\* what the database steps leave alone
DbFrame == UNCHANGED <<colVars, nops, seqVars, goVars, docVars, lifeVars, busVars, repVars, bulkVars>>

DbReturn(g, op, name, err, col) ==
    /\ dpc' = [dpc EXCEPT ![g] = "idle"]
    /\ dlocal' = [dlocal EXCEPT ![g] = NoDbLocals]
    /\ dret' = [dret EXCEPT ![g] = [op |-> op, name |-> name, err |-> err, col |-> col]]

DbGoto(g, label, name, col) ==
    /\ dpc' = [dpc EXCEPT ![g] = label]
    /\ dlocal' = [dlocal EXCEPT ![g] = [name |-> name, col |-> col]]
    /\ UNCHANGED dret

\* CreateCollection without the second look at the map
Recheck_Skipped(name) == FALSE

\* CreateCollection, the test under the write lock: the name is in the map
Recheck(name) == name \in DOMAIN Collections

\* CreateCollection: the look at the map under the read lock
CreateCheck(g) ==
    /\ dpc[g] = "idle"
    /\ dcalls < MaxDbCalls
    /\ dcalls' = dcalls + 1
    /\ \E name \in CollectionNames :
         IF name \in DOMAIN Collections
         THEN DbReturn(g, "CreateCollection", name, ErrCollectionExists, 0)
         ELSE DbGoto(g, "CreateOpen", name, 0)
    /\ UNCHANGED <<status, Collections, cols, files, corrupt, exit>>
    /\ DbFrame

\* CreateCollection: OpenCollection, which creates the file when it is missing
CreateOpen(g) ==
    /\ dpc[g] = "CreateOpen"
    /\ LET name == dlocal[g].name
       IN  IF name \in corrupt
           THEN /\ DbReturn(g, "CreateCollection", name, ErrOpen, 0)
                /\ UNCHANGED <<cols, files>>
           ELSE /\ cols' = Append(cols, [name |-> name, closed |-> FALSE])
                /\ files' = files \cup {name}
                /\ DbGoto(g, "CreateInstall", name, Len(cols) + 1)
    /\ UNCHANGED <<status, Collections, corrupt, exit, dcalls>>
    /\ DbFrame

\* CreateCollection: the section under the write lock
CreateInstall(g) ==
    /\ dpc[g] = "CreateInstall"
    /\ LET name == dlocal[g].name
           col == dlocal[g].col
       IN  IF Recheck(name)
           THEN /\ DbGoto(g, "CreateCloseLoser", name, col)
                /\ UNCHANGED Collections
           ELSE /\ Collections' = [n \in (DOMAIN Collections) \cup {name} |->
                                      IF n = name THEN col ELSE Collections[n]]
                /\ DbReturn(g, "CreateCollection", name, NoErr, col)
    /\ UNCHANGED <<status, cols, files, corrupt, exit, dcalls>>
    /\ DbFrame

\* CreateCollection: the collection opened in vain is closed
CreateCloseLoser(g) ==
    /\ dpc[g] = "CreateCloseLoser"
    /\ cols' = [cols EXCEPT ![dlocal[g].col].closed = TRUE]
    /\ DbReturn(g, "CreateCollection", dlocal[g].name, ErrCollectionExists, 0)
    /\ UNCHANGED <<status, Collections, files, corrupt, exit, dcalls>>
    /\ DbFrame

\* GetCollection
GetCollection(g) ==
    /\ dpc[g] = "idle"
    /\ dcalls < MaxDbCalls
    /\ dcalls' = dcalls + 1
    /\ \E name \in CollectionNames :
         IF name \in DOMAIN Collections
         THEN DbReturn(g, "GetCollection", name, NoErr, Collections[name])
         ELSE DbReturn(g, "GetCollection", name, ErrCollectionNotFound, 0)
    /\ UNCHANGED <<status, Collections, cols, files, corrupt, exit>>
    /\ DbFrame

\* DropCollection: the section under the write lock
DropDelete(g) ==
    /\ dpc[g] = "idle"
    /\ dcalls < MaxDbCalls
    /\ dcalls' = dcalls + 1
    /\ \E name \in CollectionNames :
         IF name \notin DOMAIN Collections
         THEN /\ DbReturn(g, "DropCollection", name, ErrCollectionNotFound, 0)
              /\ UNCHANGED Collections
         ELSE /\ Collections' = [n \in (DOMAIN Collections) \ {name} |-> Collections[n]]
              /\ DbGoto(g, "DropClose", name, Collections[name])
    /\ UNCHANGED <<status, cols, files, corrupt, exit>>
    /\ DbFrame

\* DropCollection: col.Close(), an error when the collection is closed already
DropClose(g) ==
    /\ dpc[g] = "DropClose"
    /\ LET col == dlocal[g].col
       IN  IF cols[col].closed
           THEN /\ DbReturn(g, "DropCollection", dlocal[g].name, ErrCloseTwice, col)
                /\ UNCHANGED cols
           ELSE /\ cols' = [cols EXCEPT ![col].closed = TRUE]
                /\ DbGoto(g, "DropRemoveFile", dlocal[g].name, col)
    /\ UNCHANGED <<status, Collections, files, corrupt, exit, dcalls>>
    /\ DbFrame

\* DropCollection: os.Remove of the file
DropRemoveFile(g) ==
    /\ dpc[g] = "DropRemoveFile"
    /\ LET name == dlocal[g].name
       IN  IF name \in files
           THEN /\ files' = files \ {name}
                /\ DbReturn(g, "DropCollection", name, NoErr, dlocal[g].col)
           ELSE /\ UNCHANGED files
                /\ DbReturn(g, "DropCollection", name, ErrNoFile, dlocal[g].col)
    /\ UNCHANGED <<status, Collections, cols, corrupt, exit, dcalls>>
    /\ DbFrame

NextRegistry ==
    \E g \in DbCallers :
        \/ CreateCheck(g)
        \/ CreateOpen(g)
        \/ CreateInstall(g)
        \/ CreateCloseLoser(g)
        \/ GetCollection(g)
        \/ DropDelete(g)
        \/ DropClose(g)
        \/ DropRemoveFile(g)

SpecRegistry == InitRegistry /\ [][NextRegistry]_vars

\* ---------------------------------------------------------------- database lifecycle
\* Start, the Load it runs in a goroutine of its own, and Stop, on a directory
\* that holds any of the files, some of which cannot be replayed.

InitLifecycle ==
    /\ InitCollection
    /\ InitDoc
    /\ InitManager
    /\ InitSecondary
    /\ InitBulk
    /\ status = StatusOpening
    /\ Collections = NoCollections
    /\ cols = <<>>
    /\ files \in SUBSET CollectionNames
    /\ corrupt \in SUBSET files
    /\ exit = FALSE
    /\ dcalls = 0
    /\ dpc = [g \in DbCallers |-> "idle"]
    /\ dlocal = [g \in DbCallers |-> NoDbLocals]
    /\ dret = [g \in DbCallers |-> NoDbReturn]
    /\ start = "idle"
    /\ load = NoLoad
    /\ stop = NoStop

LifeFrame ==
    UNCHANGED <<colVars, nops, seqVars, goVars, docVars, dcalls, dpc, dlocal, dret, busVars,
                repVars, bulkVars>>

ErrOpenOf(name) == <<ErrOpen, name>>
ErrWalk == "walk dir"

\* Start: Load is started in a goroutine, the caller waits for exit
StartLoad ==
    /\ start = "idle"
    /\ start' = "waiting"
    /\ load' = [load EXCEPT !.pc = "walk"]
    /\ UNCHANGED <<status, Collections, cols, files, corrupt, exit, stop>>
    /\ LifeFrame

\* Start: exit was closed
StartReturn ==
    /\ start = "waiting"
    /\ exit
    /\ start' = "returned"
    /\ UNCHANGED <<status, Collections, cols, files, corrupt, exit, load, stop>>
    /\ LifeFrame

\* Load: the walk of the directory; when it fails the status is closing and
\* Load returns, otherwise one goroutine per file is started
LoadWalk ==
    /\ load.pc = "walk"
    /\ \/ /\ load' = [load EXCEPT !.pc = "done", !.err = ErrWalk]
          /\ status' = StatusClosing
       \/ /\ load' = [load EXCEPT !.pc = "wait",
                                   !.filenames = files,
                                   !.opener = [n \in files |-> "todo"],
                                   !.col = [n \in files |-> 0]]
          /\ UNCHANGED status
    /\ UNCHANGED <<Collections, cols, files, corrupt, exit, start, stop>>
    /\ LifeFrame

\* Load, the goroutine of one file: OpenCollection, and the first error kept
\* under firstErrMu
LoadOpen(name) ==
    /\ load.pc = "wait"
    /\ name \in load.filenames
    /\ load.opener[name] = "todo"
    /\ IF name \in corrupt
       THEN /\ load' = [load EXCEPT !.opener[name] = "failed",
                                     !.firstErr = IF load.firstErr = NoErr
                                                  THEN ErrOpenOf(name) ELSE load.firstErr]
            /\ UNCHANGED cols
       ELSE /\ cols' = Append(cols, [name |-> name, closed |-> FALSE])
            /\ load' = [load EXCEPT !.opener[name] = "opened", !.col[name] = Len(cols) + 1]
    /\ UNCHANGED <<status, Collections, files, corrupt, exit, start, stop>>
    /\ LifeFrame

\* Load, the goroutine of one file: the collection is put in the map under the
\* write lock
LoadInstall(name) ==
    /\ load.pc = "wait"
    /\ name \in load.filenames
    /\ load.opener[name] = "opened"
    /\ Collections' = [n \in (DOMAIN Collections) \cup {name} |->
                          IF n = name THEN load.col[name] ELSE Collections[n]]
    /\ load' = [load EXCEPT !.opener[name] = "installed"]
    /\ UNCHANGED <<status, cols, files, corrupt, exit, start, stop>>
    /\ LifeFrame

\* Load after wg.Wait: the status is set from firstErr and Load returns
LoadFinish ==
    /\ load.pc = "wait"
    /\ \A n \in load.filenames : load.opener[n] \in {"installed", "failed"}
    /\ IF load.firstErr # NoErr
       THEN /\ status' = StatusClosing
            /\ load' = [load EXCEPT !.pc = "done", !.err = load.firstErr]
       ELSE /\ status' = StatusOperating
            /\ load' = [load EXCEPT !.pc = "done"]
    /\ UNCHANGED <<Collections, cols, files, corrupt, exit, start, stop>>
    /\ LifeFrame

\* Stop: the status is set to closing
StopSetStatus ==
    /\ stop.pc = "idle"
    /\ status' = StatusClosing
    /\ stop' = [stop EXCEPT !.pc = "list"]
    /\ UNCHANGED <<Collections, cols, files, corrupt, exit, start, load>>
    /\ LifeFrame

\* Stop: ListCollections copies the map under the read lock
StopList ==
    /\ stop.pc = "list"
    /\ stop' = [stop EXCEPT !.pc = "close", !.collections = Collections]
    /\ UNCHANGED <<status, Collections, cols, files, corrupt, exit, start, load>>
    /\ LifeFrame

\* Stop: one collection of the copy is closed
StopClose(name) ==
    /\ stop.pc = "close"
    /\ name \in DOMAIN stop.collections
    /\ LET col == stop.collections[name]
           rest == [n \in (DOMAIN stop.collections) \ {name} |-> stop.collections[n]]
       IN  IF cols[col].closed
           THEN /\ stop' = [stop EXCEPT !.collections = rest, !.lastErr = ErrCloseTwice]
                /\ UNCHANGED cols
           ELSE /\ stop' = [stop EXCEPT !.collections = rest]
                /\ cols' = [cols EXCEPT ![col].closed = TRUE]
    /\ UNCHANGED <<status, Collections, files, corrupt, exit, start, load>>
    /\ LifeFrame

\* Stop returns: the deferred close of exit
StopReturn ==
    /\ stop.pc = "close"
    /\ DOMAIN stop.collections = {}
    /\ stop' = [stop EXCEPT !.pc = "done"]
    /\ exit' = TRUE
    /\ UNCHANGED <<status, Collections, cols, files, corrupt, start, load>>
    /\ LifeFrame

NextLifecycle ==
    \/ StartLoad
    \/ StartReturn
    \/ LoadWalk
    \/ \E name \in CollectionNames : LoadOpen(name)
    \/ \E name \in CollectionNames : LoadInstall(name)
    \/ LoadFinish
    \/ StopSetStatus
    \/ StopList
    \/ \E name \in CollectionNames : StopClose(name)
    \/ StopReturn

SpecLifecycle == InitLifecycle /\ [][NextLifecycle]_vars

\* ---------------------------------------------------------------- replication bus
\* Manager.loop, PublishCommand, Subscribe with its cancel function, Close, and
\* the readers of the subscriber channels, all running at the same time.  Events
\* are numbered in the order they enter incoming.  A step is one channel
\* operation or one section under the write lock of Manager.mu; the fan-out of
\* one event holds the read lock from its first send to its last.

BusFrame == UNCHANGED <<colVars, nops, seqVars, goVars, docVars, dbVars, lifeVars, repVars, bulkVars>>

Running == ~busHist.panicked

\* Manager.mu can be taken for writing: the loop is not inside a fan-out
MuFree == loop.pc # "fanout"

\* the channel Subscribe makes
NewChan(since) == [buf |-> <<>>, closed |-> FALSE, since |-> since, sent |-> <<>>,
                   closes |-> 0]

\* a send that waits until the subscriber has room
OfferReady_WaitsForRoom(ch) == Len(ch.buf) < SubscriberCap

\* the select with a default branch of the fan-out is never kept waiting
OfferReady(ch) == TRUE

\* a fan-out that passes a full subscriber by without noting it
Offer_FullUnnoticed(ch, event) ==
    IF Len(ch.buf) < SubscriberCap
    THEN [sent |-> TRUE, ch |-> [ch EXCEPT !.buf = Append(ch.buf, event),
                                           !.sent = Append(ch.sent, event)]]
    ELSE [sent |-> TRUE, ch |-> ch]

\* the select of the fan-out: the event goes into the buffer when there is
\* room, otherwise the default branch is taken
Offer(ch, event) ==
    IF Len(ch.buf) < SubscriberCap
    THEN [sent |-> TRUE, ch |-> [ch EXCEPT !.buf = Append(ch.buf, event),
                                           !.sent = Append(ch.sent, event)]]
    ELSE [sent |-> FALSE, ch |-> ch]

\* a loop that goes on to the next event whatever the fan-out found
NothingToDrop_Always(drop) == TRUE

\* the test len(drop) == 0 after the fan-out
NothingToDrop(drop) == drop = {}

\* a close that does not look whether the subscriber is still in the map
StillRegistered_Unchecked(id) == TRUE

\* ch, ok := m.subscribers[id]
StillRegistered(id) == id \in manager.subscribers

\* delete(m.subscribers, id) and close(ch) for every id of ids that is
\* registered
CloseSubscribers(ids) ==
    /\ manager' = [manager EXCEPT !.subscribers = manager.subscribers \ ids]
    /\ chans' = [id \in DOMAIN chans |->
                    IF id \in ids /\ StillRegistered(id)
                    THEN [chans[id] EXCEPT !.closed = TRUE, !.closes = @ + 1]
                    ELSE chans[id]]

\* loop: the receive from incoming.  With an event the read lock is taken and
\* the fan-out begins; when incoming is closed and empty the range ends
LoopReceive ==
    /\ Running
    /\ loop.pc = "receive"
    /\ IF manager.incoming # <<>>
       THEN /\ manager' = [manager EXCEPT !.incoming = Tail(manager.incoming)]
            /\ loop' = IF manager.subscribers = {}
                       THEN [loop EXCEPT !.event = Head(manager.incoming), !.drop = {},
                                         !.done = Head(manager.incoming)]
                       ELSE [loop EXCEPT !.pc = "fanout", !.event = Head(manager.incoming),
                                         !.todo = manager.subscribers, !.drop = {}]
       ELSE /\ manager.closed
            /\ loop' = [loop EXCEPT !.pc = "closing"]
            /\ UNCHANGED manager
    /\ UNCHANGED <<chans, pub, closer, busHist>>
    /\ BusFrame

\* loop: the event is offered to one subscriber of the map; after the last one
\* the read lock is released
LoopFanOut(id) ==
    /\ Running
    /\ loop.pc = "fanout"
    /\ id \in loop.todo
    /\ OfferReady(chans[id])
    /\ LET res == Offer(chans[id], loop.event)
           drop == IF res.sent THEN loop.drop ELSE loop.drop \cup {id}
           todo == loop.todo \ {id}
       IN  /\ chans' = [chans EXCEPT ![id] = res.ch]
           /\ loop' = [loop EXCEPT !.todo = todo,
                                   !.drop = drop,
                                   !.pc = IF todo # {} THEN "fanout"
                                          ELSE IF NothingToDrop(drop) THEN "receive"
                                          ELSE "drop",
                                   !.done = IF todo = {} /\ NothingToDrop(drop)
                                            THEN loop.event ELSE loop.done]
    /\ UNCHANGED <<manager, pub, closer, busHist>>
    /\ BusFrame

\* loop: under the write lock, the subscribers found full are deleted from the
\* map and closed, those already gone are skipped
LoopDrop ==
    /\ Running
    /\ loop.pc = "drop"
    /\ CloseSubscribers(loop.drop)
    /\ loop' = [loop EXCEPT !.pc = "receive", !.drop = {}, !.done = loop.event]
    /\ UNCHANGED <<pub, closer, busHist>>
    /\ BusFrame

\* loop after the range: every subscriber left is deleted and closed
LoopCloseAll ==
    /\ Running
    /\ loop.pc = "closing"
    /\ CloseSubscribers(manager.subscribers)
    /\ loop' = [loop EXCEPT !.pc = "done"]
    /\ UNCHANGED <<pub, closer, busHist>>
    /\ BusFrame

\* PublishCommand: the test of m.incoming against nil
PublishCheck(p) ==
    /\ Running
    /\ pub[p] = "idle"
    /\ busHist.calls < MaxPublish
    /\ busHist' = [busHist EXCEPT !.calls = busHist.calls + 1]
    /\ pub' = [pub EXCEPT ![p] = IF manager.isnil THEN "idle" ELSE "send"]
    /\ UNCHANGED <<manager, chans, loop, closer>>
    /\ BusFrame

\* PublishCommand: the send on m.incoming, which waits while the buffer is
\* full, panics when the channel is closed and never ends when the field has
\* become nil
PublishSend(p) ==
    /\ Running
    /\ pub[p] = "send"
    /\ IF manager.isnil
       THEN /\ pub' = [pub EXCEPT ![p] = "blocked on nil"]
            /\ UNCHANGED <<manager, busHist>>
       ELSE IF manager.closed
       THEN /\ busHist' = [busHist EXCEPT !.panicked = TRUE]
            /\ UNCHANGED <<manager, pub>>
       ELSE /\ Len(manager.incoming) < IncomingCap
            /\ manager' = [manager EXCEPT !.incoming = Append(manager.incoming, busHist.published + 1)]
            /\ busHist' = [busHist EXCEPT !.published = busHist.published + 1]
            /\ pub' = [pub EXCEPT ![p] = "idle"]
    /\ UNCHANGED <<chans, loop, closer>>
    /\ BusFrame

\* Subscribe: a new id and channel, put in the map under the write lock
Subscribe ==
    /\ Running
    /\ MuFree
    /\ Len(chans) < Cardinality(SubscriberIds)
    /\ chans' = Append(chans, NewChan(busHist.published))
    /\ manager' = [manager EXCEPT !.subscribers = manager.subscribers \cup {Len(chans) + 1}]
    /\ UNCHANGED <<loop, pub, closer, busHist>>
    /\ BusFrame

\* the cancel function Subscribe returned, called any number of times: on a
\* subscriber that is no longer in the map it does nothing
Cancel(id) ==
    /\ Running
    /\ MuFree
    /\ id \in DOMAIN chans
    /\ CloseSubscribers({id})
    /\ UNCHANGED <<loop, pub, closer, busHist>>
    /\ BusFrame

\* the reader of a subscriber channel takes the next event
Receive(id) ==
    /\ Running
    /\ id \in DOMAIN chans
    /\ chans[id].buf # <<>>
    /\ chans' = [chans EXCEPT ![id].buf = Tail(chans[id].buf)]
    /\ UNCHANGED <<manager, loop, pub, closer, busHist>>
    /\ BusFrame

\* Close: the test of m.incoming against nil
CloseCheck ==
    /\ Running
    /\ closer = "idle"
    /\ closer' = IF manager.isnil THEN "done" ELSE "close"
    /\ UNCHANGED <<manager, chans, loop, pub, busHist>>
    /\ BusFrame

\* Close: close(m.incoming)
CloseIncoming ==
    /\ Running
    /\ closer = "close"
    /\ manager' = [manager EXCEPT !.closed = TRUE]
    /\ closer' = "nil"
    /\ UNCHANGED <<chans, loop, pub, busHist>>
    /\ BusFrame

\* Close: m.incoming = nil
CloseSetNil ==
    /\ Running
    /\ closer = "nil"
    /\ manager' = [manager EXCEPT !.isnil = TRUE]
    /\ closer' = "done"
    /\ UNCHANGED <<chans, loop, pub, busHist>>
    /\ BusFrame

LoopStep ==
    \/ LoopReceive
    \/ \E id \in SubscriberIds : LoopFanOut(id)
    \/ LoopDrop
    \/ LoopCloseAll

NextBus ==
    \/ LoopReceive
    \/ \E id \in SubscriberIds : LoopFanOut(id)
    \/ LoopDrop
    \/ LoopCloseAll
    \/ \E p \in Publishers : PublishCheck(p)
    \/ \E p \in Publishers : PublishSend(p)
    \/ Subscribe
    \/ \E id \in SubscriberIds : Cancel(id)
    \/ \E id \in SubscriberIds : Receive(id)
    \/ CloseCheck
    \/ CloseIncoming
    \/ CloseSetNil

SpecBus == Init /\ [][NextBus]_vars

\* the same with the scheduling of the Go runtime: the loop goroutine runs
\* whenever it can, and a publisher waiting to send gets its turn when
\* incoming has room; nothing is assumed of subscribers, readers or Close
SpecBusFair ==
    /\ Init
    /\ [][NextBus]_vars
    /\ WF_vars(LoopStep)
    /\ \A p \in Publishers : SF_vars(PublishSend(p))

\* ---------------------------------------------------------------- replication
\* A primary whose mutations commit commands and publish them on the bus, the
\* stream handler that serves the secondary's request (catch-up history, then
\* the live events of its subscription), and the secondary: its loop, runOnce,
\* applyEvent, the goroutine that cancels the request, and Stop.  The bus is
\* the Manager above, never closed here.  A step of the secondary is one
\* iteration of the decode loop or one select; a step of the handler is one
\* file streamed or one select.

RepFrame == UNCHANGED <<colVars, nops, seqVars, goVars, docVars, dbVars, lifeVars, bulkVars>>

\* the error messages ApplyCommand can return that handleOutOfSync takes for
\* a divergence, and one it does not
ErrOutOfRange == "row position out of range"
ErrAlreadyExists == "index already exists"
ErrDoesNotExist == "row does not exist"
ErrApply == "write command"

\* handleOutOfSync: the message contains one of the three signatures
IsDivergence(err) == err \in {ErrOutOfRange, ErrAlreadyExists, ErrDoesNotExist}

ApplyErrors == {ErrOutOfRange, ErrAlreadyExists, ErrDoesNotExist, ErrApply}

\* a writer that does not wait for the writer in front of it
WriteLocked_Never(name) == FALSE

\* the append mutex of the collection is held: a writer has written its
\* command and has not yet handed it to the bus
WriteLocked(name) == \E p \in Publishers : events.pending[p].collection = name

\* a mutation of the primary commits: the command is written to the file of
\* the collection and PublishCommand is called with it
Commit(p, name) ==
    /\ Running
    /\ pub[p] = "idle"
    /\ repHist.commits < MaxCommits
    /\ ~WriteLocked(name)
    /\ plog' = [plog EXCEPT ![name] = Append(@, StoredCommand(Len(@) + 1))]
    /\ IF manager.isnil
       THEN UNCHANGED <<events, pub>>
       ELSE /\ events' = [events EXCEPT !.pending[p] = Event(name, Len(plog[name]) + 1, 0)]
            /\ pub' = [pub EXCEPT ![p] = "send"]
    /\ repHist' = [repHist EXCEPT !.commits = @ + 1]
    /\ UNCHANGED <<manager, chans, loop, closer, busHist, stream, wire, sec, stopper>>
    /\ RepFrame

\* a send that loses the event
Enqueue_Lost(incoming, event) == incoming

\* m.incoming <- event
Enqueue(incoming, event) == Append(incoming, event)

\* PublishCommand: the send of the event on incoming, which waits for room
CommitPublish(p) ==
    /\ Running
    /\ pub[p] = "send"
    /\ ~manager.isnil /\ ~manager.closed
    /\ Len(manager.incoming) < IncomingCap
    /\ manager' = [manager EXCEPT !.incoming = Enqueue(@, busHist.published + 1)]
    /\ busHist' = [busHist EXCEPT !.published = @ + 1, !.calls = @ + 1]
    /\ events' = [events EXCEPT !.sent = Append(@, events.pending[p]),
                                !.pending[p] = NoEvent]
    /\ pub' = [pub EXCEPT ![p] = "idle"]
    /\ UNCHANGED <<chans, loop, closer, plog, stream, wire, sec, stopper, repHist>>
    /\ RepFrame

\* a handler whose channel never enters the map
Registered_Not(subscribers, id) == subscribers

\* m.subscribers[id] = ch
Registered(subscribers, id) == subscribers \cup {id}

\* stream: the since parameters are parsed, the headers written and the
\* handler subscribes to the bus
StreamSubscribe ==
    /\ Running
    /\ MuFree
    /\ stream.pc = "request"
    /\ chans' = Append(chans, NewChan(busHist.published))
    /\ manager' = [manager EXCEPT !.subscribers = Registered(@, Len(chans) + 1)]
    /\ stream' = [stream EXCEPT !.pc = IF DOMAIN plog = {} THEN "live" ELSE "history",
                                !.offsets = parseSince(stream.request),
                                !.id = Len(chans) + 1,
                                !.todo = DOMAIN plog]
    /\ UNCHANGED <<loop, pub, closer, busHist, plog, events, wire, sec, stopper, repHist>>
    /\ RepFrame

\* sendHistory: the file of one collection is streamed up to its end; a write
\* on a connection the client has left fails and the handler returns
StreamHistory(name) ==
    /\ stream.pc = "history"
    /\ name \in stream.todo
    /\ IF stream.gone
       THEN /\ stream' = [stream EXCEPT !.pc = "return"]
            /\ UNCHANGED wire
       ELSE /\ wire' = wire \o streamCollectionHistory(name, plog[name],
                                                       At(stream.offsets, name))
            /\ stream' = [stream EXCEPT !.todo = @ \ {name},
                                        !.pc = IF stream.todo = {name} THEN "live"
                                               ELSE "history"]
    /\ UNCHANGED <<busVars, plog, events, sec, stopper, repHist>>
    /\ RepFrame

\* stream: the select of the live part.  The request context is done, or an
\* event of the subscription is written to the response, or the subscription
\* was closed by the bus
StreamLive ==
    /\ Running
    /\ stream.pc = "live"
    /\ IF stream.gone
       THEN /\ stream' = [stream EXCEPT !.pc = "return"]
            /\ UNCHANGED <<wire, chans>>
       ELSE IF chans[stream.id].buf # <<>>
       THEN /\ wire' = Append(wire, events.sent[Head(chans[stream.id].buf)])
            /\ chans' = [chans EXCEPT ![stream.id].buf = Tail(@)]
            /\ UNCHANGED stream
       ELSE /\ chans[stream.id].closed
            /\ stream' = [stream EXCEPT !.pc = "return"]
            /\ UNCHANGED <<wire, chans>>
    /\ UNCHANGED <<manager, loop, pub, closer, busHist, plog, events, sec, stopper, repHist>>
    /\ RepFrame

\* stream returns: the deferred cancel of the subscription, and the response
\* body ends
StreamReturn ==
    /\ Running
    /\ MuFree
    /\ stream.pc = "return"
    /\ CloseSubscribers({stream.id})
    /\ stream' = NoStream
    /\ UNCHANGED <<loop, pub, closer, busHist, plog, events, wire, sec, stopper, repHist>>
    /\ RepFrame

\* the database of the secondary has finished loading
DbOperating ==
    /\ ~sec.operating
    /\ sec' = [sec EXCEPT !.operating = TRUE]
    /\ UNCHANGED <<busVars, plog, events, stream, wire, stopper, repHist>>
    /\ RepFrame

\* a goroutine that never looks at the stop channel
StopSeen_Never(s) == FALSE

\* the receive from the stop channel is ready once Stop has closed it
StopSeen(s) == s.stop

\* loop: the test of the status at the top of an iteration, with the select
\* that waits while the database is not operating
SecStatus ==
    /\ sec.pc = "status"
    /\ IF sec.operating
       THEN sec' = [sec EXCEPT !.pc = "connect"]
       ELSE /\ StopSeen(sec)
            /\ sec' = [sec EXCEPT !.pc = "exited", !.done = TRUE]
    /\ UNCHANGED <<busVars, plog, events, stream, wire, stopper, repHist>>
    /\ RepFrame

\* runOnce: the request with the since parameters of the snapshot is sent.
\* Either the primary accepts it and the handler starts, or client.Do fails
SecConnect ==
    /\ sec.pc = "connect"
    /\ \/ /\ stream.pc = "idle"
          /\ Len(chans) < Cardinality(SubscriberIds)
          /\ stream' = [NoStream EXCEPT
                            !.pc = "request",
                            !.request = SinceTokens(snapshotPositions(sec.progress))]
          /\ sec' = [sec EXCEPT !.pc = "read", !.ctx = "active"]
          /\ repHist' = [repHist EXCEPT !.connects = @ + 1]
       \/ /\ sec' = [sec EXCEPT !.pc = "sleep"]
          /\ UNCHANGED <<stream, repHist>>
    /\ UNCHANGED <<busVars, plog, events, wire, stopper>>
    /\ RepFrame

\* the goroutine of runOnce: the stop channel is closed, the request context
\* is cancelled
SecCancel ==
    /\ StopSeen(sec)
    /\ sec.ctx = "active"
    /\ sec' = [sec EXCEPT !.ctx = "cancelled"]
    /\ UNCHANGED <<busVars, plog, events, stream, wire, stopper, repHist>>
    /\ RepFrame

\* lastApplied
lastApplied(s, name) == At(s.progress, name)

\* a secondary that applies whatever it is sent
AlreadyApplied_Never(s, name, remoteStart) == FALSE

\* applyEvent: the test that skips a command
AlreadyApplied(s, name, remoteStart) == lastApplied(s, name) > remoteStart

\* a progress that is kept in memory only
saveProgressLocked_Skipped(s) == s

\* saveProgressLocked: the progress is marshalled into the .tmp file and the
\* file renamed over the progress file
saveProgressLocked(s) == [s EXCEPT !.progressFile = s.progress]

\* recordProgress
recordProgress(s, name, position) ==
    IF position <= 0 THEN s
    ELSE IF position > At(s.progress, name)
         THEN saveProgressLocked([s EXCEPT !.progress = With(@, name, position)])
         ELSE s

\* a resync that keeps the progress of the collection
ForgetProgress_Kept(progress, name) == progress

\* delete(s.progress, name)
ForgetProgress(progress, name) == Without(progress, name)

\* handleOutOfSync on a divergence: the collection is closed, taken out of the
\* database and its file removed, its progress forgotten and saved
handleOutOfSync(s, name) ==
    saveProgressLocked([s EXCEPT !.cols = Without(@, name),
                                 !.progress = ForgetProgress(@, name)])

\* Collection.ApplyCommand with persist set: the command is applied and
\* written to the file of the local collection, or err is returned
ApplyCommand(col, command, err) ==
    IF err = NoErr THEN Append(col, command) ELSE col

\* applyEvent, with the error ApplyCommand returns if it is called
applyEvent(s, event, err) ==
    IF event.collection = ""
    THEN [s |-> s, action |-> "failed"]
    ELSE LET name == event.collection
             created == IF name \in DOMAIN s.cols THEN s
                        ELSE [s EXCEPT !.cols = With(@, name, <<>>)]
             remoteStart == event.start
         IN  IF AlreadyApplied(created, name, remoteStart)
             THEN [s |-> created, action |-> "skipped"]
             ELSE IF err # NoErr
             THEN IF IsDivergence(err)
                  THEN [s |-> handleOutOfSync(created, name), action |-> "reset"]
                  ELSE [s |-> created, action |-> "failed"]
             ELSE [s |-> recordProgress(
                            [created EXCEPT !.cols[name] = ApplyCommand(@, event.id, NoErr)],
                            name, remoteStart + 1),
                   action |-> "applied"]

\* runOnce returns: the deferred close of the body and cancel of the context
Leave(s) ==
    /\ sec' = [s EXCEPT !.pc = "sleep", !.ctx = "none"]
    /\ wire' = <<>>
    /\ stream' = IF stream.pc = "idle" THEN stream ELSE [stream EXCEPT !.gone = TRUE]

\* runOnce: one turn of the decode loop.  The context was cancelled, or an
\* event is decoded and applied, or the body has ended
SecRead ==
    /\ sec.pc = "read"
    /\ \/ /\ sec.ctx = "cancelled"
          /\ Leave(sec)
          /\ UNCHANGED repHist
       \/ /\ wire # <<>>
          /\ \E err \in {NoErr} \cup (IF repHist.faults < MaxFaults THEN ApplyErrors ELSE {}) :
               LET res == applyEvent(sec, Head(wire), err)
                   s == [res.s EXCEPT !.last = [action |-> res.action, event |-> Head(wire),
                                                 err |-> err]]
               IN  /\ (err # NoErr) => res.action \in {"failed", "reset"}
                   /\ IF res.action \in {"failed", "reset"}
                      THEN /\ Leave(s)
                           /\ repHist' = [repHist EXCEPT
                                  !.faults = @ + 1,
                                  !.reset = IF res.action = "reset"
                                            THEN @ \cup {Head(wire).collection} ELSE @]
                      ELSE /\ sec' = s
                           /\ wire' = Tail(wire)
                           /\ UNCHANGED <<stream, repHist>>
       \/ /\ wire = <<>>
          /\ stream.pc = "idle"
          /\ Leave(sec)
          /\ UNCHANGED repHist
    /\ UNCHANGED <<busVars, plog, events, stopper>>
    /\ RepFrame

\* loop: the select after runOnce, between the stop channel and the timer
SecSleep ==
    /\ sec.pc = "sleep"
    /\ sec' = IF StopSeen(sec) THEN [sec EXCEPT !.pc = "exited", !.done = TRUE]
              ELSE [sec EXCEPT !.pc = "status"]
    /\ UNCHANGED <<busVars, plog, events, stream, wire, stopper, repHist>>
    /\ RepFrame

\* Stop: close(s.stop)
SecondaryStopClose ==
    /\ stopper = "idle"
    /\ sec' = [sec EXCEPT !.stop = TRUE]
    /\ stopper' = "waiting"
    /\ UNCHANGED <<busVars, plog, events, stream, wire, repHist>>
    /\ RepFrame

\* Stop: the receive from s.done
SecondaryStopWait ==
    /\ stopper = "waiting"
    /\ sec.done
    /\ stopper' = "returned"
    /\ UNCHANGED <<busVars, plog, events, stream, wire, sec, repHist>>
    /\ RepFrame

\* the commands 1..n of a file
FirstCommands(n) == [k \in 1..n |-> StoredCommand(k)]

\* the progress after the first n commands of a file were applied
ProgressAfter(n) == IF n = 0 THEN 0 ELSE InputOffset(n - 1) + 1

\* A primary whose collection "a" already holds some commands, and a
\* secondary that has applied the first of them and recorded its progress
InitRepl ==
    /\ InitCollection
    /\ InitDoc
    /\ InitDatabase
    /\ InitManager
    /\ InitBulk
    /\ \E n \in 0..MaxHistory : \E m \in 0..n :
         /\ plog = [name \in CollectionNames |-> IF name = "a" THEN FirstCommands(n) ELSE <<>>]
         /\ sec = [pc |-> "status", operating |-> FALSE,
                   progress |-> IF m = 0 THEN <<>> ELSE With(<<>>, "a", ProgressAfter(m)),
                   progressFile |-> IF m = 0 THEN <<>> ELSE With(<<>>, "a", ProgressAfter(m)),
                   cols |-> IF m = 0 THEN <<>> ELSE With(<<>>, "a", [k \in 1..m |-> k]),
                   ctx |-> "none", stop |-> FALSE, done |-> FALSE, last |-> NoLast]
    /\ events = [sent |-> <<>>, pending |-> [p \in Publishers |-> NoEvent]]
    /\ stream = NoStream
    /\ wire = <<>>
    /\ stopper = "idle"
    /\ repHist = [commits |-> 0, connects |-> 0, faults |-> 0, reset |-> {}]

\* a step of the loop goroutine of the secondary
SecStep ==
    \/ SecStatus
    \/ SecConnect
    \/ SecRead
    \/ SecSleep

\* the secondary following a primary that has one writer, on the collection
\* that has a history; Stop is not called
NextRepl ==
    \/ Commit(1, "a")
    \/ CommitPublish(1)
    \/ LoopReceive
    \/ \E id \in SubscriberIds : LoopFanOut(id)
    \/ LoopDrop
    \/ StreamSubscribe
    \/ \E name \in CollectionNames : StreamHistory(name)
    \/ StreamLive
    \/ StreamReturn
    \/ DbOperating
    \/ SecStatus
    \/ SecConnect
    \/ SecRead
    \/ SecSleep

SpecRepl == InitRepl /\ [][NextRepl]_vars

\* the writers of the primary, two of them on two collections, with the bus
\* and the subscribers that read it
NextEmit ==
    \/ \E p \in Publishers : \E name \in CollectionNames : Commit(p, name)
    \/ \E p \in Publishers : CommitPublish(p)
    \/ LoopReceive
    \/ \E id \in SubscriberIds : LoopFanOut(id)
    \/ LoopDrop
    \/ Subscribe
    \/ \E id \in SubscriberIds : Receive(id)

SpecEmit == Init /\ [][NextEmit]_vars

\* one connection of a secondary that does not read: the handler that serves
\* it, the writer of the primary and the bus; the response keeps everything
\* the handler wrote
NextCatchUp ==
    \/ \E name \in CollectionNames : Commit(1, name)
    \/ CommitPublish(1)
    \/ LoopReceive
    \/ \E id \in SubscriberIds : LoopFanOut(id)
    \/ LoopDrop
    \/ StreamSubscribe
    \/ \E name \in CollectionNames : StreamHistory(name)
    \/ StreamLive
    \/ DbOperating
    \/ SecStatus
    \/ SecConnect

SpecCatchUp == InitRepl /\ [][NextCatchUp]_vars

\* the secondary, the handler that serves it and the caller of Stop, on a
\* primary that is not written to
NextStop ==
    \/ StreamSubscribe
    \/ \E name \in CollectionNames : StreamHistory(name)
    \/ StreamLive
    \/ StreamReturn
    \/ DbOperating
    \/ SecStatus
    \/ SecConnect
    \/ SecCancel
    \/ SecRead
    \/ SecSleep
    \/ SecondaryStopClose
    \/ SecondaryStopWait

\* with the scheduling of the Go runtime for the goroutines of the secondary:
\* the loop, the goroutine that cancels the request, and the caller of Stop
\* run whenever they can; nothing is assumed of the primary
SpecStop ==
    /\ InitRepl
    /\ [][NextStop]_vars
    /\ WF_vars(SecStep)
    /\ WF_vars(SecCancel)
    /\ WF_vars(SecondaryStopWait)

\* ---------------------------------------------------------------- bulk insert: the handler
\* insert of apicollectionv1: a reader goroutine cuts the body into lines and
\* sends them as jobs, the workers decode them and send results, a goroutine
\* closes results when the workers are done, and the handler itself inserts
\* the results in the order of their sequence numbers.

BulkFrame == UNCHANGED <<nops, seqVars, goVars, docVars, dbVars, lifeVars, busVars, repVars>>

\* a main loop that takes whatever result is pending
Current_AnyPending(pending, nextSeq) ==
    { r \in pending : \A q \in pending : r.seq <= q.seq }

\* current, ok := pending[nextSeq]: the pending result whose turn it is
Current(pending, nextSeq) == { r \in pending : r.seq = nextSeq }

\* the collection of the request: empty, with a non-sparse index on "id"
IndexedCollection ==
    createIndex(EmptyCollection, "x1", [field |-> "id", sparse |-> FALSE], TRUE).c

\* the handler is called with a body and has started its goroutines
InitBulkRequest ==
    /\ InitCollectionAs(IndexedCollection)
    /\ InitDoc
    /\ InitDatabase
    /\ InitManager
    /\ InitSecondary
    /\ \E body \in Bodies, workers \in WorkerCounts : bulk = StartBulk(body, workers)

\* the reader at the top of its loop: the context, then the next line
ReaderLoop ==
    /\ bulk.reader = "loop"
    /\ bulk' = IF bulk.cancelled
               THEN [bulk EXCEPT !.readErr = ErrCanceled, !.reader = "report"]
               ELSE IF bulk.seq = Len(bulk.body)
               THEN [bulk EXCEPT !.reader = "report"]
               ELSE [bulk EXCEPT !.reader = "send"]
    /\ UNCHANGED colVars
    /\ BulkFrame

\* the reader's select: the job is sent when jobs has room
ReaderSend ==
    /\ bulk.reader = "send"
    /\ Len(bulk.jobs) < JobsCap(bulk.workers)
    /\ bulk' = [bulk EXCEPT !.jobs = Append(@, [seq |-> bulk.seq, data |-> bulk.body[bulk.seq + 1]]),
                            !.seq = @ + 1,
                            !.reader = "loop"]
    /\ UNCHANGED colVars
    /\ BulkFrame

\* the reader's select: the context is done
ReaderCanceled ==
    /\ bulk.reader = "send"
    /\ bulk.cancelled
    /\ bulk' = [bulk EXCEPT !.readErr = ErrCanceled, !.reader = "report"]
    /\ UNCHANGED colVars
    /\ BulkFrame

\* readErrCh <- readErr
ReaderReport ==
    /\ bulk.reader = "report"
    /\ bulk.readErrCh = <<>>
    /\ bulk' = [bulk EXCEPT !.readErrCh = <<bulk.readErr>>, !.reader = "close"]
    /\ UNCHANGED colVars
    /\ BulkFrame

\* the deferred close(jobs)
ReaderClose ==
    /\ bulk.reader = "close"
    /\ bulk' = [bulk EXCEPT !.jobsClosed = TRUE, !.reader = "done"]
    /\ UNCHANGED colVars
    /\ BulkFrame

\* a worker receives a job and decodes it
WorkerReceive(w) ==
    /\ bulk.worker[w].pc = "range"
    /\ bulk.jobs # <<>>
    /\ bulk' = [bulk EXCEPT !.jobs = Tail(@),
                            !.worker[w] = [pc |-> "send",
                                           res |-> <<Unmarshal(Head(bulk.jobs).seq,
                                                               Head(bulk.jobs).data)>>]]
    /\ UNCHANGED colVars
    /\ BulkFrame

\* a worker's select: the result is sent when results has room
WorkerSend(w) ==
    /\ bulk.worker[w].pc = "send"
    /\ Len(bulk.results) < ResultsCap(bulk.workers)
    /\ bulk' = [bulk EXCEPT !.results = Append(@, bulk.worker[w].res[1]),
                            !.worker[w] = [pc |-> "range", res |-> <<>>]]
    /\ UNCHANGED colVars
    /\ BulkFrame

\* a worker's select: the context is done, the result is dropped
WorkerCanceled(w) ==
    /\ bulk.worker[w].pc = "send"
    /\ bulk.cancelled
    /\ bulk' = [bulk EXCEPT !.worker[w] = [pc |-> "range", res |-> <<>>]]
    /\ UNCHANGED colVars
    /\ BulkFrame

\* a worker finds jobs closed and empty: wg.Done
WorkerDone(w) ==
    /\ bulk.worker[w].pc = "range"
    /\ bulk.jobs = <<>>
    /\ bulk.jobsClosed
    /\ bulk' = [bulk EXCEPT !.worker[w] = [pc |-> "done", res |-> <<>>]]
    /\ UNCHANGED colVars
    /\ BulkFrame

\* wg.Wait(); close(results)
CloseResults ==
    /\ bulk.main # "idle"
    /\ ~bulk.resultsClosed
    /\ \A w \in DOMAIN bulk.worker : bulk.worker[w].pc = "done"
    /\ bulk' = [bulk EXCEPT !.resultsClosed = TRUE]
    /\ UNCHANGED colVars
    /\ BulkFrame

\* the main loop receives a result: dropped once processErr is set, put in
\* pending otherwise
MainReceive ==
    /\ bulk.main = "range"
    /\ bulk.results # <<>>
    /\ LET res == Head(bulk.results)
       IN  bulk' = IF bulk.processErr # NoErr
                   THEN [bulk EXCEPT !.results = Tail(@)]
                   ELSE [bulk EXCEPT !.results = Tail(@),
                                     !.pending = @ \cup {res},
                                     !.reordered = @ \/ res.seq # bulk.nextSeq,
                                     !.main = "drain"]
    /\ UNCHANGED colVars
    /\ BulkFrame

\* the inner loop finds no result for nextSeq
MainWait ==
    /\ bulk.main = "drain"
    /\ Current(bulk.pending, bulk.nextSeq) = {}
    /\ bulk' = [bulk EXCEPT !.main = "range"]
    /\ UNCHANGED colVars
    /\ BulkFrame

\* the inner loop takes the result for nextSeq: a decoding error or an error
\* of Insert is kept in processErr, the context is cancelled and pending is
\* emptied; otherwise the row is written to the response
MainInsert ==
    /\ bulk.main = "drain"
    /\ \E current \in Current(bulk.pending, bulk.nextSeq) :
         IF current.err # NoErr
         THEN /\ bulk' = [bulk EXCEPT !.processErr = current.err, !.cancelled = TRUE,
                                      !.pending = {}, !.main = "range"]
              /\ UNCHANGED colVars
         ELSE \E order \in Orders(DOMAIN Indexes) :
                LET res == Insert(Col, current.item[1], order)
                IN  /\ SetCol(res.c)
                    /\ bulk' = IF res.err # NoErr
                               THEN [bulk EXCEPT !.processErr = res.err, !.cancelled = TRUE,
                                                 !.pending = {}, !.main = "range"]
                               ELSE [bulk EXCEPT !.pending = @ \ {current},
                                                 !.inserted = @ + 1,
                                                 !.nextSeq = @ + 1]
    /\ BulkFrame

\* results is closed and empty: the main loop ends
MainEnd ==
    /\ bulk.main = "range"
    /\ bulk.results = <<>>
    /\ bulk.resultsClosed
    /\ bulk' = [bulk EXCEPT !.main = "readErr"]
    /\ UNCHANGED colVars
    /\ BulkFrame

\* readErr := <-readErrCh, and the handler returns
MainReturn ==
    /\ bulk.main = "readErr"
    /\ bulk.readErrCh # <<>>
    /\ bulk' = [bulk EXCEPT !.readErrCh = <<>>,
                            !.main = "returned",
                            !.err = IF bulk.processErr # NoErr THEN bulk.processErr
                                    ELSE IF bulk.readErrCh[1] \notin {NoErr, ErrCanceled}
                                    THEN bulk.readErrCh[1]
                                    ELSE NoErr]
    /\ UNCHANGED colVars
    /\ BulkFrame

NextBulk ==
    \/ ReaderLoop
    \/ ReaderSend
    \/ ReaderCanceled
    \/ ReaderReport
    \/ ReaderClose
    \/ \E w \in DOMAIN bulk.worker :
         \/ WorkerReceive(w)
         \/ WorkerSend(w)
         \/ WorkerCanceled(w)
         \/ WorkerDone(w)
    \/ CloseResults
    \/ MainReceive
    \/ MainWait
    \/ MainInsert
    \/ MainEnd
    \/ MainReturn

SpecBulk == InitBulkRequest /\ [][NextBulk]_vars

\* every goroutine of the handler keeps running
SpecBulkFair == SpecBulk /\ WF_vars(NextBulk)

\* ---------------------------------------------------------------- observations
\* the position of a row in the table, -1 when the table does not hold it
PositionOf(c, row) ==
    IF c.I[row] < Len(c.Rows) /\ c.Rows[c.I[row] + 1] = row THEN c.I[row] ELSE -1

InTable(c, row) == PositionOf(c, row) >= 0

\* what a reader sees of a collection: the payloads by position, and for every
\* index its options and, per key, the position and payload of the row
View(c) ==
    [rows |-> [p \in 1..Len(c.Rows) |-> c.Payload[c.Rows[p]]],
     indexes |-> [name \in DOMAIN c.Indexes |->
        [field |-> c.Indexes[name].field,
         sparse |-> c.Indexes[name].sparse,
         entries |-> [k \in DOMAIN c.Indexes[name].entries |->
            [position |-> PositionOf(c, c.Indexes[name].entries[k]),
             payload |-> c.Payload[c.Indexes[name].entries[k]]]]]]]

\* ---------------------------------------------------------------- claims

\* C1: recovery identity (rows and indexes).  When every call made so far on
\* the collection succeeded, reopening the collection from its log succeeds
\* and yields the same payloads at the same positions and the same index
\* contents.
C1_RecoveryIdentity ==
    allOk =>
        \A perm \in Orders(IndexNames) :
            LET recovered == OpenCollection(log, perm)
            IN  /\ recovered.err = NoErr
                /\ View(recovered.c) = View(Col)


\* a step of the sequential machine that is a call of op
Called(op) == nops' = nops + 1 /\ ret'.op = op

\* the payload Insert builds from the item of the call just made
InsertedPayload ==
    IF Defaults = <<>> THEN ret'.arg ELSE ApplyDefaults(Defaults[1], Count + 1, ret'.arg)

\* the merge-patch diff patchByRow computes for the call just made
PatchDiff ==
    CreateMergePatch(Payload[ret'.row], MergePatch(Payload[ret'.row], ret'.arg))

MutatingCalls == {"Insert", "Remove", "Patch", "CreateIndex", "DropIndex", "SetDefaults"}

CommandNameOf(op) ==
    CASE op = "Insert" -> "insert"
      [] op = "Remove" -> "remove"
      [] op = "Patch" -> "patch"
      [] op = "CreateIndex" -> "index"
      [] op = "DropIndex" -> "drop_index"
      [] op = "SetDefaults" -> "set_defaults"

\* the log grew by exactly one command, of the given name
AppendedOne(name) ==
    /\ Len(log') = Len(log) + 1
    /\ SubSeq(log', 1, Len(log)) = log
    /\ log'[Len(log')].name = name

\* C2 as stated: log totality.  Whenever Insert, Remove, Patch, CreateIndex,
\* DropIndex or SetDefaults returns success, the call appended its command to
\* the log before it returned.
C2_LogTotality_Original ==
    [][ (\E op \in MutatingCalls : Called(op)) /\ ret'.err = NoErr
          => AppendedOne(CommandNameOf(ret'.op)) ]_vars

\* C2 amended: whenever Insert, Remove, CreateIndex, DropIndex or SetDefaults
\* returns success, or Patch returns success for a patch whose merge-patch
\* diff against the row's payload is not empty, the call appended its command
\* to the log before it returned.
C2_LogTotality ==
    [][ (\E op \in MutatingCalls : Called(op)) /\ ret'.err = NoErr
        /\ ~(ret'.op = "Patch" /\ DOMAIN PatchDiff = {})
          => AppendedOne(CommandNameOf(ret'.op)) ]_vars

\* C2 witness: a Patch that changed the row returned success and is in the log
C2_Witness ==
    /\ ret.op = "Patch"
    /\ ret.err = NoErr
    /\ ret.logged
    /\ log[Len(log)] = PatchCommand(I[ret.row], ret.arg)

\* the item of the call just made duplicates a key of some unique-map index
DuplicatesKey ==
    \E name \in DOMAIN Indexes :
        /\ Indexes[name].field \in DOMAIN InsertedPayload
        /\ \E k \in KeysOf(InsertedPayload[Indexes[name].field]) :
               k \in DOMAIN Indexes[name].entries

LiveRowsWithKey(field, k) ==
    { p \in 1..Len(Rows) :
        /\ field \in DOMAIN Payload[Rows[p]]
        /\ k \in KeysOf(Payload[Rows[p]][field]) }

AllKeys == {"a", "b"}

\* C4: unique-map constraint.  In every reachable state, under any
\* interleaving of concurrent Insert calls, no two rows of the table share a
\* key in the same non-sparse unique-map index.
C4_UniqueMapConstraint ==
    \A name \in DOMAIN Indexes :
        ~Indexes[name].sparse =>
            \A k \in AllKeys : Cardinality(LiveRowsWithKey(Indexes[name].field, k)) <= 1

\* C5: index completeness.  After any sequence of calls, failed ones included,
\* every row of the table that has the indexed field is found under each of
\* its keys in every non-sparse index.
C5_IndexCompleteness ==
    \A name \in DOMAIN Indexes :
        ~Indexes[name].sparse =>
            \A p \in 1..Len(Rows) :
                Indexes[name].field \in DOMAIN Payload[Rows[p]] =>
                    \A k \in KeysOf(Payload[Rows[p]][Indexes[name].field]) :
                        /\ k \in DOMAIN Indexes[name].entries
                        /\ Indexes[name].entries[k] = Rows[p]

\* C6: row position integrity.  After any interleaving of Insert and Remove
\* calls every position of the table holds a row whose I is that position.
C6_RowPositionIntegrity ==
    \A p \in 1..Len(Rows) : I[Rows[p]] = p - 1

\* C6 witness: two goroutines were at work, a row was removed from the front
\* of the table and the row that replaced it is not the first one inserted
C6_Witness ==
    /\ \A g \in Goroutines : returned[g].op # ""
    /\ \E g \in Goroutines : returned[g].op = "Remove" /\ returned[g].err = NoErr
    /\ Len(Rows) >= 1
    /\ Rows[1] # 1

\* C7: Remove uses swap-with-last.  A successful Remove of the row at position
\* i of a table of length n leaves a table of length n-1; when i was not the
\* last position the previously last row sits at position i with I = i; every
\* other remaining row keeps its position; the log grew by one remove command
\* carrying i.
C7_RemoveSwapWithLast ==
    [][ Called("Remove") /\ ret'.err = NoErr =>
          LET i == I[ret'.row]
              n == Len(Rows)
          IN  /\ ret'.i = i
              /\ Len(Rows') = n - 1
              /\ i < n - 1 => (Rows'[i + 1] = Rows[n] /\ I'[Rows[n]] = i)
              /\ \A p \in 1..(n - 1) :
                     p # i + 1 => (Rows'[p] = Rows[p] /\ I'[Rows[p]] = I[Rows[p]])
              /\ log' = Append(log, RemoveCommand(i)) ]_vars

\* C7 witness: R0 was removed from the table R0, R1, R2, leaving R2, R1
C7_Witness ==
    /\ ret.op = "Remove"
    /\ ret.err = NoErr
    /\ ret.row = 1
    /\ ret.i = 0
    /\ Rows = <<3, 2>>
    /\ log[Len(log)] = RemoveCommand(0)

\* C8: a Patch whose merge-patch diff against the row's payload is empty
\* returns success and leaves the log, the payloads, the table and the indexes
\* alone; a Patch that repeats the successful Patch just made on the same row
\* appends nothing to the log.
C8_NoOpPatch ==
    [][ Called("Patch") =>
          /\ DOMAIN PatchDiff = {} =>
                 /\ ret'.err = NoErr
                 /\ log' = log
                 /\ Payload' = Payload
                 /\ Rows' = Rows
                 /\ Indexes' = Indexes
          /\ ( /\ ret.op = "Patch"
               /\ ret.err = NoErr
               /\ ret'.row = ret.row
               /\ ret'.arg = ret.arg )
                 => (ret'.err = NoErr /\ log' = log) ]_vars

\* C8 witness: the patch logged last was repeated on the same row, which sits
\* in an index, and nothing was logged for the repeat
C8_Witness ==
    /\ ret.op = "Patch"
    /\ ret.err = NoErr
    /\ ~ret.logged
    /\ Len(log) >= 1
    /\ log[Len(log)] = PatchCommand(I[ret.row], ret.arg)
    /\ \E name \in DOMAIN Indexes : \E k \in DOMAIN Indexes[name].entries :
           Indexes[name].entries[k] = ret.row

\* C9: a Patch that fails on an index conflict restores the row: the payloads
\* and every index are what they were before the call and nothing was logged.
C9_PatchConflictRestores ==
    [][ Called("Patch") /\ ret'.err = ErrConflict =>
          /\ Payload' = Payload
          /\ Indexes' = Indexes
          /\ log' = log ]_vars

\* C10: when Insert, Remove or Patch returns an error because the command
\* could not be written to the log, the row table, the payloads, the indexes
\* and Count are what they were before the call.
C10_FailedWriteIsAtomic ==
    [][ (\E op \in {"Insert", "Remove", "Patch"} : Called(op))
        /\ ret'.err \in {ErrWrite, ErrClosed}
          => /\ Rows' = Rows
             /\ I' = I
             /\ Payload' = Payload
             /\ Indexes' = Indexes
             /\ Count' = Count ]_vars

\* C11: once Close has returned, every Insert, Remove, Patch, CreateIndex,
\* DropIndex and SetDefaults call on the collection fails with the
\* collection-closed error, and the collection stays closed.
C11_ClosedRefusesMutations ==
    [][ file = "nil" =>
          /\ file' = "nil"
          /\ (\E op \in MutatingCalls : Called(op)) => ret'.err = ErrClosed ]_vars

\* the rows the table holds
RowSet(c) == {c.Rows[p] : p \in 1..Len(c.Rows)}

\* C12: Remove removes exactly the row it was given.  A successful Remove
\* takes that row and no other out of the table; a Remove of a row that is no
\* longer in the table fails with the row-does-not-exist error and leaves the
\* table, the indexes and the log as they were.
C12_RemoveExactRow ==
    [][ Called("Remove") =>
          /\ ret'.err = NoErr =>
                 /\ InTable(Col, ret'.row)
                 /\ RowSet([Rows |-> Rows']) = RowSet(Col) \ {ret'.row}
          /\ ~InTable(Col, ret'.row) =>
                 /\ ret'.err = ErrRowMissing
                 /\ Rows' = Rows
                 /\ Indexes' = Indexes
                 /\ log' = log ]_vars

\* C14: Count survives recovery.  When every call made so far succeeded and
\* the collection reopens from its log, the reopened collection has the Count
\* of the collection that was closed.
C14_CountSurvivesRecovery ==
    allOk =>
        \A perm \in Orders(IndexNames) :
            LET recovered == OpenCollection(log, perm)
            IN  recovered.err = NoErr => recovered.c.Count = Count

\* C13 as stated: merge-patch round trip.  For all JSON objects a and b,
\* merging into a the diff computed from a to b yields b.
C13_RoundTrip_Original ==
    docStage \in {"replayed of two", "replayed of patch"} => docOut = docB

\* C13 amended: for every JSON object a and every b that is a with some merge
\* patch applied, merging into a the diff computed from a to b yields b: the
\* replay of a logged patch diff on the old payload gives the patched payload.
C13_RoundTrip ==
    docStage = "replayed of patch" => docOut = docB

\* C13 witness: a patch changed a member of a nested object and left a null of
\* the old payload alone; the diff holds the changed member only and was replayed
C13_Witness ==
    /\ docStage = "replayed of patch"
    /\ docA = Obj2("id", Obj(Obj1("id", Str("a"))), "tag", Null)
    /\ docB = Obj2("id", Obj(Obj1("id", Str("b"))), "tag", Null)
    /\ docDiff = Obj1("id", Obj(Obj1("id", Str("b"))))
    /\ docOut = docB

\* the callers whose last finished call is a CreateCollection of name
CreatorsOf(name) ==
    {g \in DbCallers : dret[g].op = "CreateCollection" /\ dret[g].name = name}

\* every call made so far was a CreateCollection of name, one per caller, and
\* all have returned
OnlyCreated(name) ==
    /\ dcalls = Cardinality(DbCallers)
    /\ \A g \in DbCallers : dpc[g] = "idle"
    /\ CreatorsOf(name) = DbCallers

C16_LookupFindsLiveCollection ==
    [][ \A g \in DbCallers :
          ( /\ dpc[g] = "idle"
            /\ dret'[g] # dret[g]
            /\ dret'[g].op = "GetCollection"
            /\ dret'[g].err = NoErr )
              => /\ ~cols[dret'[g].col].closed
                 /\ dret'[g].name \in files ]_vars

\* the steps the status may take
StatusOrder ==
    {<<StatusOpening, StatusOperating>>, <<StatusOpening, StatusClosing>>,
     <<StatusOperating, StatusClosing>>}

\* C17: the status only moves forward along opening, operating, closing; once
\* it is closing it stays closing, also when Stop is called while the Load
\* that Start began is still running.
C17_StatusMovesForward ==
    [][ status' # status => <<status, status'>> \in StatusOrder ]_vars

\* C18: when a collection could not be opened during Load, Load returns the
\* first error recorded, the status is closing and not operating, and every
\* collection that Load opened is closed.
C18_FailedLoadClosesCollections ==
    (load.pc = "done" /\ load.firstErr # NoErr) =>
        /\ load.err = load.firstErr
        /\ status = StatusClosing
        /\ \A name \in load.filenames :
               load.opener[name] = "installed" => cols[load.col[name]].closed

\* the events a channel was sent
SentTo(id) == {chans[id].sent[k] : k \in 1..Len(chans[id].sent)}

\* the number of events whose fan-out has gone past subscriber id
Passed(id) ==
    IF loop.pc = "fanout" /\ id \in loop.todo THEN loop.event - 1 ELSE loop.event

\* the events published after Subscribe returned that went past the subscriber
\* without being sent to it
Missed(id) == {e \in (chans[id].since + 1)..Passed(id) : e \notin SentTo(id)}

\* C19: a subscriber whose buffer is full when an event is fanned out is
\* dropped.  Once an event has gone past a subscriber without being sent to
\* it, the subscriber is sent no later event, and by the time the loop is done
\* with that event its channel is closed and it is out of the subscriber set.
C19_FullSubscriberIsDropped ==
    \A id \in DOMAIN chans :
        Missed(id) # {} =>
            /\ \A e \in SentTo(id) : \A m \in Missed(id) : e < m
            /\ (\E m \in Missed(id) : loop.done >= m) =>
                   /\ chans[id].closed
                   /\ id \notin manager.subscribers

\* C19 witness: a subscriber that never read was full when the next event was
\* fanned out and has been dropped; the other subscriber was sent that event
\* and is still subscribed
C19_Witness ==
    /\ Len(chans) = 2
    /\ \E id \in DOMAIN chans :
           /\ Len(chans[id].buf) = SubscriberCap
           /\ chans[id].sent = chans[id].buf
           /\ SubscriberCap + 1 \in Missed(id)
           /\ chans[id].closed
    /\ \E id \in DOMAIN chans :
           /\ ~chans[id].closed
           /\ id \in manager.subscribers
           /\ SubscriberCap + 1 \in SentTo(id)
    /\ loop.pc = "receive"
    /\ closer = "idle"

\* the fan-out of event e is over: the loop is done with it and every
\* subscriber that subscribed before it and is still open was sent it
Served(e) ==
    /\ loop.done >= e
    /\ \A id \in DOMAIN chans :
           (chans[id].since < e /\ ~chans[id].closed) => e \in SentTo(id)

\* C20: the publisher is not kept waiting by subscribers.  While Close has not
\* been called, every PublishCommand that waits to send returns, and every
\* event that entered incoming is fanned out to the subscribers that have
\* room, whether or not any subscriber ever reads.
C20_PublisherNeverBlocked ==
    /\ \A p \in Publishers :
           (pub[p] = "send") ~> (pub[p] = "idle" \/ closer # "idle")
    /\ \A e \in 1..MaxPublish :
           (busHist.published >= e) ~> (Served(e) \/ closer # "idle")

\* C20 witness: every publish call has returned although one subscriber never
\* read and was full; the other subscriber was sent the last event
C20_Witness ==
    /\ busHist.calls = MaxPublish
    /\ busHist.published = MaxPublish
    /\ \A p \in Publishers : pub[p] = "idle"
    /\ closer = "idle"
    /\ \E id \in DOMAIN chans :
           /\ Len(chans[id].buf) = SubscriberCap
           /\ chans[id].sent = chans[id].buf
           /\ chans[id].closed
    /\ \E id \in DOMAIN chans :
           /\ ~chans[id].closed
           /\ MaxPublish \in SentTo(id)
    /\ Served(MaxPublish)

\* the events published after subscriber id subscribed
PublishedSince(id) == (chans[id].since + 1)..busHist.published

\* C21: Close drains and then closes.  When the loop has ended, every
\* subscriber that no event went past was sent every event published since it
\* subscribed; and once incoming is closed, every subscriber registered while
\* the loop is still running comes to see its channel closed.
C21_CloseDrainsThenCloses ==
    /\ [](loop.pc = "done" =>
             \A id \in DOMAIN chans :
                 Missed(id) = {} => PublishedSince(id) \subseteq SentTo(id))
    /\ \A id \in SubscriberIds :
           (manager.closed /\ loop.pc # "done" /\ id \in manager.subscribers)
               ~> (id \in DOMAIN chans /\ chans[id].closed)

\* the same as long as no PublishCommand runs into the closed channel
C21_CloseDrainsUnlessPanic ==
    /\ [](loop.pc = "done" =>
             \A id \in DOMAIN chans :
                 Missed(id) = {} => PublishedSince(id) \subseteq SentTo(id))
    /\ \A id \in SubscriberIds :
           (manager.closed /\ loop.pc # "done" /\ id \in manager.subscribers)
               ~> (busHist.panicked \/ (id \in DOMAIN chans /\ chans[id].closed))

\* C30: recovery skips a remove or patch command whose position is outside
\* the row table and goes on.  Whatever log the collection has written,
\* OpenCollection on it does not stop at such a command: it reaches the end of
\* the log without the out-of-range access ending it.
C30_RecoverySkipsOutOfRange ==
    \A perm \in Orders(IndexNames) :
        OpenCollection(log, perm).err # ErrPanic

\* the payloads of the row table by position
RowTable(c) == [p \in 1..Len(c.Rows) |-> c.Payload[c.Rows[p]]]

\* C29: concurrent writers leave the log consistent with the row table.
\* Whenever no call is under way, replaying the log in append order succeeds
\* and rebuilds the row table that is in memory, row by row.
C29_LogMatchesRowTable ==
    (\A g \in Goroutines : pc[g] = "idle") =>
        \A perm \in Orders(IndexNames) :
            LET recovered == OpenCollection(log, perm)
            IN  /\ recovered.err = NoErr
                /\ RowTable(recovered.c) = RowTable(Col)

\* the events of one collection, in the order they entered incoming
EventsOf(name) == SelectSeq(events.sent, LAMBDA e : e.collection = name)

\* the writers that have written a command of the collection and not yet
\* published it
Publishing(name) == {p \in Publishers : events.pending[p].collection = name}

NoCommandTwice(s) ==
    \A name \in DOMAIN s.cols :
        \A i \in 1..Len(s.cols[name]) : \A j \in 1..Len(s.cols[name]) :
            i # j => s.cols[name][i] # s.cols[name][j]

\* a step of the decode loop that went on to the next event: the event in
\* front of the body was applied or skipped
Consumed ==
    /\ sec.pc = "read" /\ sec'.pc = "read"
    /\ wire # <<>> /\ wire' = Tail(wire)

\* C23: idempotence of the secondary.  An event whose start_byte is below the
\* recorded progress of its collection is skipped, the local collection stays
\* as it was, and through duplicated events, resets and reconnects no local
\* collection ever holds a command of the primary twice.
C23_NoCommandAppliedTwice ==
    [][/\ NoCommandTwice(sec')
       /\ (Consumed /\ lastApplied(sec, Head(wire).collection) > Head(wire).start)
             => /\ sec'.last.action = "skipped"
                /\ sec'.cols = sec.cols
                /\ sec'.progress = sec.progress]_vars

\* C23 witness: on its second connection the secondary skipped the event of a
\* command its local collection already holds
C23_Witness ==
    /\ sec.last.action = "skipped"
    /\ repHist.connects = 2
    /\ sec.last.event.collection \in DOMAIN sec.cols
    /\ \E k \in 1..Len(sec.cols[sec.last.event.collection]) :
           sec.cols[sec.last.event.collection][k] = sec.last.event.id

\* a step of the decode loop in which applying the event failed
ApplyFailed == repHist'.faults = repHist.faults + 1

FromScratch(col, commands) ==
    /\ Len(col) <= Len(commands)
    /\ \A k \in 1..Len(col) : col[k] = commands[k].id

\* the request of a new connection is sent
Connected == repHist'.connects = repHist.connects + 1

\* C25: resync after a divergence.  When ApplyCommand fails with one of the
\* three divergence messages the local collection is gone, its progress is
\* gone from the memory and from the file, and the connection is left; the
\* next request carries the since tokens of the progress that is left and no
\* other, so none for the collection that was reset; and what the secondary
\* then holds of that collection is built from the first command of the
\* primary on.
C25_DivergenceResetsAndRebuilds ==
    [][/\ (ApplyFailed /\ IsDivergence(sec'.last.err))
             => /\ sec'.last.action = "reset"
                /\ Head(wire).collection \notin DOMAIN sec'.cols
                /\ Head(wire).collection \notin DOMAIN sec'.progress
                /\ Head(wire).collection \notin DOMAIN sec'.progressFile
                /\ sec'.pc = "sleep"
       /\ Connected
             => /\ \A k \in 1..Len(stream'.request) :
                       /\ stream'.request[k].name \in DOMAIN sec.progress
                       /\ stream'.request[k].offset = sec.progress[stream'.request[k].name]
                /\ \A name \in repHist.reset \ DOMAIN sec.cols :
                       At(parseSince(stream'.request), name) = 0
       /\ \A name \in repHist'.reset \cap DOMAIN sec'.cols :
              FromScratch(sec'.cols[name], plog'[name])]_vars

\* C25 witness: a collection that was reset was rebuilt on the next connection
\* and holds the commands of the primary again, all of them
C25_Witness ==
    /\ "a" \in repHist.reset
    /\ repHist.connects = 2
    /\ "a" \in DOMAIN sec.cols
    /\ Len(sec.cols["a"]) = Len(plog["a"])
    /\ Len(plog["a"]) >= 2

\* the handler streams the history of the collection name in this step
HistoryStep(name) ==
    /\ stream.pc = "history"
    /\ name \in stream.todo
    /\ stream'.todo = stream.todo \ {name}

\* C26: the catch-up filter.  With p the offset the request gives for a
\* collection (0 when it gives none), the history of the collection that is
\* written to the response is, in the order of the file, one event for every
\* command decoded at an offset >= p, with that offset as its start_byte,
\* and no event for a command decoded at a smaller offset; with no since
\* entry every command of the file is sent.
C26_HistoryFromSince ==
    [][\A name \in CollectionNames :
          HistoryStep(name) =>
              LET p == At(parseSince(stream.request), name)
                  sent == SubSeq(wire', Len(wire) + 1, Len(wire'))
                  commands == plog[name]
                  before == Cardinality({k \in 1..Len(commands) : InputOffset(k - 1) < p})
              IN  /\ Len(wire') >= Len(wire)
                  /\ SubSeq(wire', 1, Len(wire)) = wire
                  /\ Len(sent) = Len(commands) - before
                  /\ \A j \in 1..Len(sent) :
                         /\ sent[j] = Event(name, commands[before + j].id,
                                            InputOffset(before + j - 1))
                         /\ sent[j].start >= p
                  /\ (p <= 0) => Len(sent) = Len(commands)]_vars

\* C26 witness: the request asked for a collection from an offset inside its
\* file, and the history that was sent starts at a later command than the
\* first
C26_Witness ==
    /\ stream.pc = "live"
    /\ At(stream.offsets, "a") > 0
    /\ Len(plog["a"]) >= 2
    /\ wire # <<>>
    /\ Head(wire).start >= At(stream.offsets, "a")
    /\ Head(wire).id > 1

\* the secondary has consumed the stream of its first connection: the handler
\* is in its live part with its subscription open, every command of the
\* primary had its event sent and fanned out, and nothing is left on the bus,
\* in the subscription or in the response; no apply has failed
StreamConsumed ==
    /\ repHist.connects = 1 /\ repHist.faults = 0
    /\ sec.pc = "read" /\ wire = <<>>
    /\ stream.pc = "live" /\ ~stream.gone
    /\ stream.id \in manager.subscribers
    /\ ~chans[stream.id].closed /\ chans[stream.id].buf = <<>>
    /\ manager.incoming = <<>> /\ loop.pc = "receive"
    /\ \A p \in Publishers : pub[p] = "idle" /\ events.pending[p] = NoEvent

\* C27: convergence of the replication.  Once the secondary has consumed the
\* stream, history and live events, its collection holds the commands of the
\* primary, the same sequence with none missing, repeated or out of order.
C27_SecondaryConverges ==
    StreamConsumed =>
        \A name \in CollectionNames :
            LET col == IF name \in DOMAIN sec.cols THEN sec.cols[name] ELSE <<>>
            IN  /\ Len(col) = Len(plog[name])
                /\ FromScratch(col, plog[name])

\* C28: Stop ends the secondary.  Wherever the loop is when Stop closes the
\* stop channel (waiting for the database, reading the stream, applying an
\* event, sleeping before a retry), the loop exits and Stop returns; and once
\* Stop has returned no local collection and no progress changes any more.
C28_StopTerminates ==
    /\ (stopper = "waiting") ~> (stopper = "returned")
    /\ [][stopper = "returned"
             => /\ sec'.cols = sec.cols
                /\ sec'.progress = sec.progress
                /\ sec'.pc = "exited"]_vars

\* C28 witness: Stop has returned after it was called while the loop was
\* reading the stream: the connection was left by the cancelled context, with
\* the handler of the primary still serving it, after a command was applied
C28_Witness ==
    /\ stopper = "returned"
    /\ sec.done
    /\ repHist.faults = 0
    /\ stream.gone
    /\ sec.last.action = "applied"

C38_ClosedOnceNeverWritten ==
    [][\A id \in DOMAIN chans' :
          /\ chans'[id].closes <= 1
          /\ chans'[id].closed = (chans'[id].closes = 1)
          /\ id \in manager'.subscribers => ~chans'[id].closed
          /\ (id \in DOMAIN chans /\ chans[id].closed)
                => /\ chans'[id].closed
                   /\ chans'[id].closes = chans[id].closes
                   /\ chans'[id].sent = chans[id].sent]_vars

\* C38 witness: one subscriber was closed after an event had gone past it,
\* the other without having missed any, and the loop has ended after Close;
\* each of them was closed once
C38_Witness ==
    /\ Len(chans) = 2
    /\ \E id \in DOMAIN chans :
           /\ Missed(id) # {}
           /\ chans[id].closes = 1
    /\ \E id \in DOMAIN chans :
           /\ Missed(id) = {}
           /\ chans[id].closes = 1
    /\ loop.pc = "done"

\* C39: PublishCommand is safe against Close.  No PublishCommand sends on the
\* closed incoming channel, which panics, and none is left waiting for ever on
\* the field Close has set to nil.
C39_PublishSafeAgainstClose ==
    /\ ~busHist.panicked
    /\ \A p \in Publishers : pub[p] # "blocked on nil"

\* an event of the command k of a collection is in the response
Delivered(name, k) ==
    \E j \in 1..Len(wire) : wire[j].collection = name /\ wire[j].id = k

\* the numbers of the events of the bus that carry the command k of a collection
EventNumbers(name, k) ==
    {n \in 1..Len(events.sent) :
        events.sent[n].collection = name /\ events.sent[n].id = k}

\* the command k of a collection is on its way to the response: its writer is
\* about to publish it, or its event waits in incoming, is being fanned out to
\* the handler, or waits in the channel of the handler
OnItsWay(name, k) ==
    \/ \E p \in Publishers :
           events.pending[p].collection = name /\ events.pending[p].id = k
    \/ \E n \in EventNumbers(name, k) :
           \/ \E j \in 1..Len(manager.incoming) : manager.incoming[j] = n
           \/ loop.pc = "fanout" /\ loop.event = n /\ stream.id \in loop.todo
           \/ \E j \in 1..Len(chans[stream.id].buf) : chans[stream.id].buf[j] = n

\* the handler has subscribed and its subscription is open and not about to
\* be dropped
Subscribed ==
    /\ stream.pc \in {"history", "live"}
    /\ ~chans[stream.id].closed
    /\ stream.id \notin loop.drop

C34_DeleteRemovesExactlyTheSet ==
    \A selected \in SUBSET RowSet(Col) : \A order \in Orders(DOMAIN Indexes) :
        LET res == handleDelete(Col, selected, order)
        IN  /\ res.err = NoErr
            /\ res.i = Cardinality(selected)
            /\ RowSet(res.c) = RowSet(Col) \ selected
            /\ Len(res.c.Rows) = Len(Rows) - Cardinality(selected)
            /\ (selected = RowSet(Col)) => res.c.Rows = <<>>

\* the same on a collection on which no Patch has failed
C34_DeleteUnlessPatchFailed ==
    allOk => C34_DeleteRemovesExactlyTheSet

\* every goroutine is back from its call
Quiescent == \A g \in Goroutines : pc[g] = "idle"

\* no index holds a pointer to a row the table does not hold
NoDanglingPointer ==
    \A name \in DOMAIN Indexes : \A k \in DOMAIN Indexes[name].entries :
        InTable(Col, Indexes[name].entries[k])

\* one goroutine is back from a Patch of the row with a nil error and another
\* from a Remove of the same row with a nil error
PatchedAndRemoved(row) ==
    \E g, h \in Goroutines :
        /\ returned[g] = [op |-> "Patch", err |-> NoErr, row |-> row]
        /\ returned[h] = [op |-> "Remove", err |-> NoErr, row |-> row]

\* C35: for any interleaving of a Patch and a Remove of the same row, once
\* both have returned no index holds a pointer to a row that is not in the
\* table.  (Stated for the runs of exactly these two calls, both returning
\* nil.)
C35_NoDanglingPointerAfterPatchAndRemove ==
    (Quiescent /\ nops = 2 /\ \E row \in DOMAIN I : PatchedAndRemoved(row)) => NoDanglingPointer

\* the patch commands of the log
PatchCommands == SelectSeq(log, LAMBDA command : command.name = "patch")

\* C31: Patch calls that run at the same time are serialized per row by
\* row.PatchMutex.  Once every call has returned, the payload of every row is
\* what the patch commands of the log, applied in the order of the log, make
\* of the payload the row had (no patch is lost, and the log holds the patches
\* in the order they took effect).
C31_PatchesSerializedPerRow ==
    Quiescent =>
        LET replayed == ReplayFrom(LoadedCollection, PatchCommands, 0, <<"x1", "x2">>)
        IN  /\ replayed.err = NoErr
            /\ \A p \in 1..Len(Rows) :
                   replayed.c.Payload[replayed.c.Rows[p]] = Payload[Rows[p]]

\* C31, for the runs in which no Patch has returned an error
C31_PatchesSerializedUnlessFailed == allOk => C31_PatchesSerializedPerRow

\* C31, second part: a Patch of a row whose PatchMutex is free can begin
\* whatever the other goroutines are doing on other rows
C31_OtherRowNeverWaits ==
    \A g \in Goroutines :
        (pc[g] = "idle" /\ nops < MaxCalls /\ \E row \in DOMAIN I : ~PatchMutexHeld(row))
            => ENABLED PatchBegin(g)

\* every row of the table that has the field of the index is in the index
\* under each of its keys
IndexComplete(name) ==
    \A p \in 1..Len(Rows) :
        Indexes[name].field \in DOMAIN Payload[Rows[p]] =>
            \A k \in KeysOf(Payload[Rows[p]][Indexes[name].field]) :
                /\ k \in DOMAIN Indexes[name].entries
                /\ Indexes[name].entries[k] = Rows[p]

\* the two calls made so far are a CreateIndex and an Insert, and both have
\* returned nil
CreatedAndInserted ==
    /\ Quiescent
    /\ nops = 2
    /\ \E g, h \in Goroutines :
           /\ returned[g].op = "CreateIndex" /\ returned[g].err = NoErr
           /\ returned[h].op = "Insert" /\ returned[h].err = NoErr

\* C33: a CreateIndex that runs at the same time as an Insert leaves the new
\* index complete: once both have returned, every row of the table that has
\* the indexed field is in the index.
C33_CreateIndexCompleteUnderInsert ==
    CreatedAndInserted => \A name \in DOMAIN Indexes : IndexComplete(name)

\* goroutine g returns from createIndex because a row could not be added
FailsOnRow(g) == pc[g] = "CreateIndexAddRow" /\ pc'[g] = "idle"

\* goroutine g returns from createIndex because the name is taken
FailsOnName(g) ==
    /\ pc[g] = "idle" /\ pc'[g] = "idle"
    /\ returned'[g] # returned[g]
    /\ returned'[g].op = "CreateIndex"

\* goroutine h is in an Insert whose iteration over the indexes holds the
\* index of that name
Observes(h, name) ==
    /\ local[h].op = "Insert"
    /\ \E n \in 1..Len(local[h].order) : local[h].order[n] = name

\* C32, the failure itself: CreateIndex fails with already-exists when the
\* name is taken and with the error of AddRow when a row cannot be indexed;
\* the step that returns the error leaves no index of that name behind, does
\* not touch the other indexes and logs nothing.
C32_FailedCreateIndexLeavesNoTrace ==
    [][ \A g \in Goroutines :
          /\ FailsOnName(g) =>
                /\ returned'[g].err = ErrIndexExists
                /\ Indexes' = Indexes
                /\ log' = log
          /\ FailsOnRow(g) =>
                /\ returned'[g].err \in {ErrConflict, ErrMandatory, ErrType}
                /\ Indexes' = Deleted(Indexes, local[g].name)
                /\ log' = log ]_vars

\* C32: CreateIndex fails with already-exists when the name is taken and with
\* the error of AddRow when a row cannot be indexed; after the failure the
\* index table is as before and no index command is logged, and no Insert
\* that runs at the same time has observed the index that was being built.
C32_FailedCreateIndexIsNeverObserved ==
    [][ \A g \in Goroutines :
          /\ FailsOnName(g) =>
                /\ returned'[g].err = ErrIndexExists
                /\ Indexes' = Indexes
                /\ log' = log
          /\ FailsOnRow(g) =>
                /\ returned'[g].err \in {ErrConflict, ErrMandatory, ErrType}
                /\ Indexes' = Deleted(Indexes, local[g].name)
                /\ log' = log
                /\ \A h \in Goroutines : ~Observes(h, local[g].name) ]_vars

\* the number of lines of the body that are inserted when the lines are
\* inserted one after the other and the first line that cannot be decoded or
\* inserted ends the request
RECURSIVE InsertedInOrder(_, _, _)
InsertedInOrder(c, body, n) ==
    IF n = Len(body) THEN n
    ELSE IF Unmarshal(n, body[n + 1]).err # NoErr THEN n
    ELSE LET res == Insert(c, Unmarshal(n, body[n + 1]).item[1], <<"x1">>)
         IN  IF res.err # NoErr THEN n ELSE InsertedInOrder(res.c, body, n + 1)

\* the rows of the table are the first lines of the body, in the order of the
\* body
RowsInBodyOrder ==
    /\ Len(Rows) <= Len(bulk.body)
    /\ \A p \in 1..Len(Rows) : <<Payload[Rows[p]]>> = Unmarshal(p - 1, bulk.body[p]).item
    /\ \A p \in 1..Len(log) - 1 : log[p + 1] = InsertCommand(Payload[Rows[p]])

\* every goroutine the handler started has finished
GoroutinesFinished ==
    /\ bulk.reader = "done"
    /\ \A w \in DOMAIN bulk.worker : bulk.worker[w].pc = "done"
    /\ bulk.resultsClosed

\* C40: the bulk insert handler inserts the documents in the order of the
\* request body whatever the scheduling of its workers; when the document at
\* index k cannot be decoded or conflicts, exactly the documents before k are
\* inserted and none after it; the handler returns, and when it does all its
\* goroutines have finished.
C40_BulkInsertInBodyOrder ==
    /\ [](RowsInBodyOrder)
    /\ [](bulk.main = "returned" =>
            /\ Len(Rows) = InsertedInOrder(IndexedCollection, bulk.body, 0)
            /\ bulk.inserted = Len(Rows)
            /\ (bulk.err = NoErr) = (Len(Rows) = Len(bulk.body))
            /\ GoroutinesFinished)
    /\ <>(bulk.main = "returned")

\* C40 witness: a result arrived before its turn, the handler has inserted
\* the first line, failed on a later one with a line still behind it, and has
\* returned
C40_Witness ==
    /\ bulk.main = "returned"
    /\ bulk.reordered
    /\ bulk.err # NoErr
    /\ bulk.inserted >= 1
    /\ Len(bulk.body) > bulk.inserted + 1
====
